---- MODULE Spec2Model ----
(***************************************************************************)
(* Salary/CTC computation engine of the WPU GOA faculty-compensation       *)
(* calculator: the calculator page's state, the settings it reads, and the *)
(* pure pipeline calculateComparison -> calculateUGCSalary ->              *)
(* calculateWPUSalary (strategy resolution, benefits, enforcement).        *)
(*                                                                         *)
(* Numbers.  Monetary amounts are integers.  The multiplier is kept in     *)
(* hundredths (1.3 is 130) and the benefit percentages in hundredths of a  *)
(* percent (12% is 1200, 4.81% is 481), so that every product the code     *)
(* rounds is an exact fraction n/d here; Round(n, d) is Math.round(n/d).   *)
(***************************************************************************)
EXTENDS Integers, Sequences, FiniteSets, TLC

(***************************************************************************)
(* Reference data (ugc-data.ts)                                            *)
(***************************************************************************)
PAY_MATRIX ==
  "10" :> <<
       57700, 59400, 61200, 63000, 64900, 66800, 68800, 70900,
       73000, 75200, 77500, 79800, 82200, 84700, 87200, 89800,
       92500, 95300, 98200, 101100, 104100, 107200, 110400, 113700,
       117100, 120600, 124200, 127900, 131700, 135700, 139800, 144000,
       148300, 152700, 157300, 162000, 166900, 171900, 177100, 182400 >> @@
  "11" :> <<
       68900, 71000, 73100, 75300, 77600, 79900, 82300, 84800,
       87300, 89900, 92600, 95400, 98300, 101200, 104200, 107300,
       110500, 113800, 117200, 120700, 124300, 128000, 131800, 135800,
       139900, 144100, 148400, 152900, 157500, 162200, 167100, 172100,
       177300, 182600, 188100, 193700, 199500, 205500 >> @@
  "12" :> <<
       79800, 82200, 84100, 87200, 89800, 92500, 95300, 98200,
       101100, 104100, 107200, 110400, 113700, 117100, 120600, 124200,
       127900, 131700, 135700, 139800, 144000, 148300, 152700, 157300,
       162000, 166900, 171900, 177100, 182400, 187900, 193500, 199300,
       205300, 211500 >> @@
  "13A" :> <<
       131400, 135300, 139400, 143600, 147900, 152300, 156900, 161600,
       166400, 171400, 176500, 181800, 187300, 192900, 198700, 204100,
       210800, 217100 >> @@
  "14" :> <<
       144200, 148500, 153000, 157600, 162300, 167200, 172200, 177400,
       182100, 188200, 193800, 199600, 205600, 211800, 218200 >> @@
  "15" :> <<
       182200, 187700, 193300, 199100, 205100, 211300, 217600, 224100 >>

\* FACULTY_POSITIONS: id -> the level and the fixed special allowance of the role.
FACULTY_POSITIONS ==
  1 :> [level |-> "10",  specialAllowance |-> 0] @@
  2 :> [level |-> "11",  specialAllowance |-> 0] @@
  3 :> [level |-> "12",  specialAllowance |-> 0] @@
  4 :> [level |-> "13A", specialAllowance |-> 0] @@
  5 :> [level |-> "14",  specialAllowance |-> 0] @@
  6 :> [level |-> "15",  specialAllowance |-> 0] @@
  7 :> [level |-> "13A", specialAllowance |-> 2000] @@
  8 :> [level |-> "14",  specialAllowance |-> 3000]

\* HRA_RATES[cityType].rate, in percent.
HRA_RATES ==
  [X |-> 30, Y |-> 20, Z |-> 10]

TA_RATES ==
  [level9Plus |-> [tptaCity |-> 7200, otherCity |-> 3600],
   level3to8  |-> [tptaCity |-> 3600, otherCity |-> 1800],
   level1to2  |-> [tptaCity |-> 1350, otherCity |-> 900]]

FINANCIAL_STRATEGIES ==
  {"multiplier", "premium", "both", "higher", "lower"}

MULTIPLIER_METHODS ==
  {"methodA", "methodB"}

(***************************************************************************)
(* Settings defaults (settings-context, as listed in README.md)            *)
(***************************************************************************)
\* An optional argument or a missing map entry is a record with defined = FALSE.
NoHraConfig ==
  [defined |-> FALSE, providingHousing |-> FALSE, stillProvideHra |-> FALSE,
   hraMode |-> "percent", lumpSumValue |-> 0]

NoPremiumRange ==
  [defined |-> FALSE, minPremium |-> 0, maxPremium |-> 0]

NoSalaryCap ==
  [defined |-> FALSE, minWPUSalaryAnnual |-> 0, maxWPUSalaryAnnual |-> 0,
   maxWPUCTCAnnual |-> 0]

DEFAULT_HRA_CONFIG ==
  [defined |-> TRUE, providingHousing |-> TRUE, stillProvideHra |-> FALSE,
   hraMode |-> "percent", lumpSumValue |-> 0]

SalaryCap(min, max, ctc) ==
  [defined |-> TRUE, minWPUSalaryAnnual |-> min, maxWPUSalaryAnnual |-> max,
   maxWPUCTCAnnual |-> ctc]

DEFAULT_POSITION_SALARY_CAPS ==
  [p \in DOMAIN FACULTY_POSITIONS |->
     CASE p \in {1, 2, 3} -> SalaryCap(1500000, 2300000, 0)
       [] p = 4           -> SalaryCap(2200000, 3200000, 0)
       [] p \in {5, 6}    -> SalaryCap(3200000, 4200000, 0)
       [] OTHER           -> NoSalaryCap]

LevelBenefits(housing) ==
  [housing |-> housing, professionalDev |-> 8333, ppfPercent |-> 1200,
   gratuityPercent |-> 481, healthInsurance |-> 1250]

\* README.md line 162.
SETTINGS_VERSION == 7

DEFAULT_GLOBAL_BENEFITS ==
  LevelBenefits(36250)

\* A position without an override in positionBenefits.
NoPositionBenefits ==
  [defined |-> FALSE, benefits |-> DEFAULT_GLOBAL_BENEFITS]

DEFAULT_LEVEL_BENEFITS ==
  "10"  :> LevelBenefits(36250) @@
  "11"  :> LevelBenefits(36250) @@
  "12"  :> LevelBenefits(36250) @@
  "13A" :> LevelBenefits(40417) @@
  "14"  :> LevelBenefits(54167) @@
  "15"  :> LevelBenefits(54167)

DEFAULT_SETTINGS ==
  [multiplierMethod       |-> "methodA",
   baseMultiplier         |-> 130,
   daPercentage           |-> 58,
   cityType               |-> "Y",
   isTPTACity             |-> FALSE,
   financialStrategy      |-> "multiplier",
   annualPremium          |-> 300000,
   globalBenefits         |-> DEFAULT_GLOBAL_BENEFITS,
   levelBenefits          |-> DEFAULT_LEVEL_BENEFITS,
   positionBenefits       |-> [p \in DOMAIN FACULTY_POSITIONS |-> NoPositionBenefits],
   enforcementMode        |-> "soft",
   positionPremiumRanges  |-> [p \in DOMAIN FACULTY_POSITIONS |-> NoPremiumRange],
   positionSalaryCaps     |-> DEFAULT_POSITION_SALARY_CAPS,
   hraConfig              |-> DEFAULT_HRA_CONFIG]

(***************************************************************************)
(* The calculators (salary-calculator.ts)                                  *)
(***************************************************************************)
\* A plausible reading of Math.round: the nearest integer, a tie going away
\* from zero.
Round_HalfAwayFromZero(n, d) ==
  IF n >= 0 THEN (2 * n + d) \div (2 * d) ELSE -((2 * (-n) + d) \div (2 * d))

\* Math.round(n / d) for d > 0: the nearest integer, a tie going up.
Round(n, d) ==
  (2 * n + d) \div (2 * d)

\* What a lookup returns: a number, or JavaScript's undefined.
Num(n) ==
  [undefined |-> FALSE, number |-> n]

Undefined ==
  [undefined |-> TRUE, number |-> 0]

\* PAY_MATRIX is an object literal (ugc-data.ts line 25), so PAY_MATRIX[level]
\* finds, besides its own six keys, the members every object inherits from
\* Object.prototype: functions, which are truthy and have a length (1 for
\* constructor, 0 for toString) but no indexed elements.
InheritedLength ==
  "constructor" :> 1 @@ "toString" :> 0

\* A plausible slip of line 81: the first cell returned for every index.
getCellAmount_FirstCell(level, cellIndex) ==
  IF level \in DOMAIN PAY_MATRIX
  THEN IF cellIndex < 0 \/ cellIndex >= Len(PAY_MATRIX[level])
       THEN Num(0)
       ELSE Num(PAY_MATRIX[level][1])
  ELSE IF level \in DOMAIN InheritedLength
  THEN IF cellIndex < 0 \/ cellIndex >= InheritedLength[level] THEN Num(0) ELSE Undefined
  ELSE Num(0)

\* salary-calculator.ts lines 78-82.
getCellAmount(level, cellIndex) ==
  IF level \in DOMAIN PAY_MATRIX
  THEN IF cellIndex < 0 \/ cellIndex >= Len(PAY_MATRIX[level])
       THEN Num(0)
       ELSE Num(PAY_MATRIX[level][cellIndex + 1])
  ELSE IF level \in DOMAIN InheritedLength
  THEN IF cellIndex < 0 \/ cellIndex >= InheritedLength[level] THEN Num(0) ELSE Undefined
  ELSE Num(0)

suggestCellFromExperience_Unclamped(level, yearsOfExperience) ==
  IF level \notin DOMAIN PAY_MATRIX THEN 0
  ELSE IF yearsOfExperience > 0 THEN yearsOfExperience ELSE 0

suggestCellFromExperience(level, yearsOfExperience) ==
  IF level \notin DOMAIN PAY_MATRIX THEN 0
  ELSE LET n == Len(PAY_MATRIX[level]) - 1
           cellIndex == IF yearsOfExperience < n THEN yearsOfExperience ELSE n
       IN  IF cellIndex > 0 THEN cellIndex ELSE 0

calculateDA(basic, daPercent) ==
  Round(basic * daPercent, 100)

\* A plausible slip of lines 111-116: the lump-sum test taken before the test
\* that housing is provided without HRA.
calculateHRA_LumpSumFirst(basic, cityType, hraConfig) ==
  IF hraConfig.defined /\ hraConfig.hraMode = "lumpsum"
  THEN [amount |-> hraConfig.lumpSumValue, mode |-> "lumpsum"]
  ELSE IF hraConfig.defined /\ hraConfig.providingHousing /\ ~hraConfig.stillProvideHra
  THEN [amount |-> 0, mode |-> "none"]
  ELSE [amount |-> Round(basic * HRA_RATES[cityType], 100), mode |-> "percent"]

calculateHRA(basic, cityType, hraConfig) ==
  IF hraConfig.defined /\ hraConfig.providingHousing /\ ~hraConfig.stillProvideHra
  THEN [amount |-> 0, mode |-> "none"]
  ELSE IF hraConfig.defined /\ hraConfig.hraMode = "lumpsum"
  THEN [amount |-> hraConfig.lumpSumValue, mode |-> "lumpsum"]
  ELSE [amount |-> Round(basic * HRA_RATES[cityType], 100), mode |-> "percent"]

\* parseInt(level) of the level names of the pay matrix and of the one-digit
\* levels below them; any other string parses to NaN, for which both bracket
\* comparisons are false: -1 stands for it.
LevelNum(level) ==
  CASE level = "13A" -> 13
    [] level = "1"   -> 1
    [] level = "2"   -> 2
    [] level = "3"   -> 3
    [] level = "4"   -> 4
    [] level = "5"   -> 5
    [] level = "6"   -> 6
    [] level = "7"   -> 7
    [] level = "8"   -> 8
    [] level = "9"   -> 9
    [] level = "10"  -> 10
    [] level = "11"  -> 11
    [] level = "12"  -> 12
    [] level = "14"  -> 14
    [] level = "15"  -> 15
    [] level = "16"  -> 16
    [] OTHER         -> -1

calculateTA(level, daPercent, isTPTACity) ==
  LET levelNum == LevelNum(level)
      bracket  == IF levelNum >= 9 THEN TA_RATES.level9Plus
                  ELSE IF levelNum >= 3 THEN TA_RATES.level3to8
                  ELSE TA_RATES.level1to2
      taBase   == IF isTPTACity THEN bracket.tptaCity ELSE bracket.otherCity
      daOnTA   == Round(taBase * daPercent, 100)
  IN  taBase + daOnTA

\* A plausible slip of line 150: the special allowance left out of the total.
calculateUGCSalary_TotalWithoutSpecial(basic, daPercent, cityType, level, specialAllowance, isTPTACity, hraConfig) ==
  LET da           == calculateDA(basic, daPercent)
      hraResult    == calculateHRA(basic, cityType, hraConfig)
      ta           == calculateTA(level, daPercent, isTPTACity)
      totalMonthly == basic + da + hraResult.amount + ta
  IN  [basic            |-> basic,
       da               |-> da,
       hra              |-> hraResult.amount,
       hraMode          |-> hraResult.mode,
       ta               |-> ta,
       specialAllowance |-> specialAllowance,
       totalMonthly     |-> totalMonthly,
       totalAnnual      |-> totalMonthly * 12]

calculateUGCSalary(basic, daPercent, cityType, level, specialAllowance, isTPTACity, hraConfig) ==
  LET da           == calculateDA(basic, daPercent)
      hraResult    == calculateHRA(basic, cityType, hraConfig)
      ta           == calculateTA(level, daPercent, isTPTACity)
      totalMonthly == basic + da + hraResult.amount + ta + specialAllowance
  IN  [basic            |-> basic,
       da               |-> da,
       hra              |-> hraResult.amount,
       hraMode          |-> hraResult.mode,
       ta               |-> ta,
       specialAllowance |-> specialAllowance,
       totalMonthly     |-> totalMonthly,
       totalAnnual      |-> totalMonthly * 12]

\* ppfPercent and gratuityPercent are in hundredths of a percent.
calculateBenefits(basic, benefits) ==
  LET ppfAmount      == Round(basic * benefits.ppfPercent, 10000)
      gratuityAmount == Round(basic * benefits.gratuityPercent, 10000)
      totalMonthly   == benefits.housing + benefits.professionalDev + ppfAmount
                        + gratuityAmount + benefits.healthInsurance
  IN  [housing         |-> benefits.housing,
       professionalDev |-> benefits.professionalDev,
       ppfAmount       |-> ppfAmount,
       gratuityAmount  |-> gratuityAmount,
       healthInsurance |-> benefits.healthInsurance,
       totalMonthly    |-> totalMonthly,
       totalAnnual     |-> totalMonthly * 12]

(***************************************************************************)
(* calculateWPUSalary, in the order of its code                            *)
(***************************************************************************)
\* A plausible slip of line 212: the bonus taken on the baseline's total instead
\* of on the components the enhanced salary reports.
MethodAComponents_BonusOnBaseline(ugcSalary, multiplier, cityType, specialAllowance, hraConfig) ==
  LET hraResult == calculateHRA(ugcSalary.basic, cityType, hraConfig)
  IN  [basic   |-> ugcSalary.basic,
       da      |-> ugcSalary.da,
       hra     |-> hraResult.amount,
       hraMode |-> hraResult.mode,
       ta      |-> ugcSalary.ta,
       multiplierBonus |-> Round(ugcSalary.totalMonthly * (multiplier - 100), 100)]

\* A plausible slip of lines 208-210: the baseline's HRA carried over like the
\* other components, the housing config ignored.
MethodAComponents_BaselineHRA(ugcSalary, multiplier, cityType, specialAllowance, hraConfig) ==
  LET baseSalaryForMultiplier ==
        ugcSalary.basic + ugcSalary.da + ugcSalary.hra + ugcSalary.ta + specialAllowance
  IN  [basic   |-> ugcSalary.basic,
       da      |-> ugcSalary.da,
       hra     |-> ugcSalary.hra,
       hraMode |-> ugcSalary.hraMode,
       ta      |-> ugcSalary.ta,
       multiplierBonus |-> Round(baseSalaryForMultiplier * (multiplier - 100), 100)]

\* Lines 205-213: methodA keeps the baseline's basic, DA and TA, recomputes the
\* HRA under the housing config and itemises the uplift as a bonus.
MethodAComponents(ugcSalary, multiplier, cityType, specialAllowance, hraConfig) ==
  LET hraResult == calculateHRA(ugcSalary.basic, cityType, hraConfig)
      baseSalaryForMultiplier ==
        ugcSalary.basic + ugcSalary.da + hraResult.amount + ugcSalary.ta
        + specialAllowance
  IN  [basic   |-> ugcSalary.basic,
       da      |-> ugcSalary.da,
       hra     |-> hraResult.amount,
       hraMode |-> hraResult.mode,
       ta      |-> ugcSalary.ta,
       multiplierBonus |-> Round(baseSalaryForMultiplier * (multiplier - 100), 100)]

\* Lines 214-222: methodB multiplies the basic and recomputes the allowances.
MethodBComponents(ugcSalary, multiplier, daPercent, cityType, level, isTPTACity, hraConfig) ==
  LET wpuBasic  == Round(ugcSalary.basic * multiplier, 100)
      hraResult == calculateHRA(wpuBasic, cityType, hraConfig)
  IN  [basic   |-> wpuBasic,
       da      |-> calculateDA(wpuBasic, daPercent),
       hra     |-> hraResult.amount,
       hraMode |-> hraResult.mode,
       ta      |-> calculateTA(level, daPercent, isTPTACity),
       multiplierBonus |-> 0]

\* Lines 205-222: the method-dependent components, before the strategy.
MethodComponents(ugcSalary, multiplier, method, daPercent, cityType, level, specialAllowance, isTPTACity, hraConfig) ==
  IF method = "methodA"
  THEN MethodAComponents(ugcSalary, multiplier, cityType, specialAllowance, hraConfig)
  ELSE MethodBComponents(ugcSalary, multiplier, daPercent, cityType, level, isTPTACity,
                         hraConfig)

\* The multiplier path of the switch: the total is baseSalaryMonthly and the
\* premium line item is zeroed (lines 236-237, 255-256, 271-272).
MultiplierPath(c, multiplierResult) ==
  [basic |-> c.basic, da |-> c.da, hra |-> c.hra, hraMode |-> c.hraMode, ta |-> c.ta,
   multiplierBonus    |-> c.multiplierBonus,
   premiumMonthly     |-> 0,
   totalSalaryMonthly |-> multiplierResult]

\* A plausible slip of line 228: the premium total summed from the reported
\* line items instead of taken from the baseline's total.
PremiumPath_LineItemTotal(ugcSalary, c, method, premiumMonthly) ==
  LET reset == method = "methodB"
      hra   == IF reset THEN ugcSalary.hra ELSE c.hra
  IN  [basic   |-> ugcSalary.basic,
       da      |-> ugcSalary.da,
       hra     |-> hra,
       hraMode |-> IF reset THEN ugcSalary.hraMode ELSE c.hraMode,
       ta      |-> ugcSalary.ta,
       multiplierBonus    |-> 0,
       premiumMonthly     |-> premiumMonthly,
       totalSalaryMonthly |-> ugcSalary.basic + ugcSalary.da + hra + ugcSalary.ta
                              + ugcSalary.specialAllowance + premiumMonthly]

\* A plausible slip of lines 242-248: the reset of methodB's components left out.
PremiumPath_NoReset(ugcSalary, c, method, premiumMonthly) ==
  [basic   |-> c.basic,
   da      |-> c.da,
   hra     |-> c.hra,
   hraMode |-> c.hraMode,
   ta      |-> c.ta,
   multiplierBonus    |-> 0,
   premiumMonthly     |-> premiumMonthly,
   totalSalaryMonthly |-> ugcSalary.totalMonthly + premiumMonthly]

\* The premium path of the switch: the total is the baseline total plus the
\* premium (line 228), the bonus is zeroed and methodB's components go back to
\* the baseline's (lines 240-248, 258-266, 274-282).
PremiumPath(ugcSalary, c, method, premiumMonthly) ==
  LET reset == method = "methodB"
  IN  [basic   |-> IF reset THEN ugcSalary.basic ELSE c.basic,
       da      |-> IF reset THEN ugcSalary.da ELSE c.da,
       hra     |-> IF reset THEN ugcSalary.hra ELSE c.hra,
       hraMode |-> IF reset THEN ugcSalary.hraMode ELSE c.hraMode,
       ta      |-> IF reset THEN ugcSalary.ta ELSE c.ta,
       multiplierBonus    |-> 0,
       premiumMonthly     |-> premiumMonthly,
       totalSalaryMonthly |-> ugcSalary.totalMonthly + premiumMonthly]

\* A plausible slip of lines 253 and 269: the two comparisons exchanged.
StrategyResolution_SwappedComparisons(ugcSalary, c, annualPremium, strategy, method, specialAllowance) ==
  LET baseSalaryMonthly == c.basic + c.da + c.hra + c.ta + specialAllowance
                           + c.multiplierBonus
      premiumMonthly    == Round(annualPremium, 12)
      multiplierResult  == baseSalaryMonthly
      viaMultiplier     == MultiplierPath(c, multiplierResult)
      viaPremium        == PremiumPath(ugcSalary, c, method, premiumMonthly)
      premiumResult     == viaPremium.totalSalaryMonthly
  IN  CASE strategy = "multiplier" -> viaMultiplier
        [] strategy = "premium"    -> viaPremium
        [] strategy = "both"       ->
             [basic |-> c.basic, da |-> c.da, hra |-> c.hra, hraMode |-> c.hraMode,
              ta |-> c.ta,
              multiplierBonus    |-> c.multiplierBonus,
              premiumMonthly     |-> premiumMonthly,
              totalSalaryMonthly |-> baseSalaryMonthly + premiumMonthly]
        [] strategy = "higher"     ->
             IF multiplierResult <= premiumResult THEN viaMultiplier ELSE viaPremium
        [] strategy = "lower"      ->
             IF multiplierResult >= premiumResult THEN viaMultiplier ELSE viaPremium

\* Lines 224-285: the totals of the two paths and the switch on the strategy.
StrategyResolution(ugcSalary, c, annualPremium, strategy, method, specialAllowance) ==
  LET baseSalaryMonthly == c.basic + c.da + c.hra + c.ta + specialAllowance
                           + c.multiplierBonus
      premiumMonthly    == Round(annualPremium, 12)
      multiplierResult  == baseSalaryMonthly
      viaMultiplier     == MultiplierPath(c, multiplierResult)
      viaPremium        == PremiumPath(ugcSalary, c, method, premiumMonthly)
      premiumResult     == viaPremium.totalSalaryMonthly
  IN  CASE strategy = "multiplier" -> viaMultiplier
        [] strategy = "premium"    -> viaPremium
        [] strategy = "both"       ->
             [basic |-> c.basic, da |-> c.da, hra |-> c.hra, hraMode |-> c.hraMode,
              ta |-> c.ta,
              multiplierBonus    |-> c.multiplierBonus,
              premiumMonthly     |-> premiumMonthly,
              totalSalaryMonthly |-> baseSalaryMonthly + premiumMonthly]
        [] strategy = "higher"     ->
             IF multiplierResult >= premiumResult THEN viaMultiplier ELSE viaPremium
        [] strategy = "lower"      ->
             IF multiplierResult <= premiumResult THEN viaMultiplier ELSE viaPremium

\* Lines 300-307: the premium-range flags.
PremiumFlags(annualPremium, premiumRange) ==
  [premiumAboveMax |-> /\ premiumRange.defined
                       /\ premiumRange.maxPremium > 0
                       /\ annualPremium > premiumRange.maxPremium,
   premiumBelowMin |-> /\ premiumRange.defined
                       /\ premiumRange.minPremium > 0
                       /\ annualPremium < premiumRange.minPremium]

\* A plausible slip of line 319: the derived cap taken without the test that a
\* maximum salary is configured.
ComputedMaxCTC_NoSalaryGuard(salaryCap, benefitsBreakdown) ==
  IF salaryCap.maxWPUCTCAnnual > 0
  THEN salaryCap.maxWPUCTCAnnual
  ELSE salaryCap.maxWPUSalaryAnnual + benefitsBreakdown.totalAnnual

\* Lines 317-319: the effective max CTC; 0 is "no cap".
ComputedMaxCTC(salaryCap, benefitsBreakdown) ==
  IF salaryCap.maxWPUCTCAnnual > 0
  THEN salaryCap.maxWPUCTCAnnual
  ELSE IF salaryCap.maxWPUSalaryAnnual > 0
       THEN salaryCap.maxWPUSalaryAnnual + benefitsBreakdown.totalAnnual
       ELSE 0

\* A plausible slip of line 325: the clamp applied whatever the mode.
HardClamp_AnyMode(enforcementMode, totalSalaryMonthly, totalCTCMonthly, benefitsBreakdown, salaryCap, salaryCapped, ctcCapped, computedMaxCTC) ==
  LET clampedSalary == IF salaryCapped
                       THEN Round(salaryCap.maxWPUSalaryAnnual, 12)
                       ELSE totalSalaryMonthly
      recomputedCTC == clampedSalary + benefitsBreakdown.totalMonthly
      exceeds       == computedMaxCTC > 0 /\ recomputedCTC * 12 > computedMaxCTC
  IN  [totalSalaryMonthly |-> clampedSalary,
       totalCTCMonthly    |-> IF exceeds THEN Round(computedMaxCTC, 12)
                              ELSE recomputedCTC,
       ctcCapped          |-> IF exceeds THEN TRUE ELSE ctcCapped]

\* A plausible slip of lines 330-333: ctcCapped assigned from the second test
\* instead of only raised by it.
HardClamp_FlagFollowsClamp(enforcementMode, totalSalaryMonthly, totalCTCMonthly, benefitsBreakdown, salaryCap, salaryCapped, ctcCapped, computedMaxCTC) ==
  LET clampedSalary == IF salaryCapped
                       THEN Round(salaryCap.maxWPUSalaryAnnual, 12)
                       ELSE totalSalaryMonthly
      recomputedCTC == clampedSalary + benefitsBreakdown.totalMonthly
      exceeds       == computedMaxCTC > 0 /\ recomputedCTC * 12 > computedMaxCTC
  IN  IF enforcementMode = "hard"
      THEN [totalSalaryMonthly |-> clampedSalary,
            totalCTCMonthly    |-> IF exceeds THEN Round(computedMaxCTC, 12)
                                   ELSE recomputedCTC,
            ctcCapped          |-> exceeds]
      ELSE [totalSalaryMonthly |-> totalSalaryMonthly,
            totalCTCMonthly    |-> totalCTCMonthly,
            ctcCapped          |-> ctcCapped]

\* A plausible addition to lines 325-334: hard mode raising a salary below the
\* minimum up to it.
HardClamp_RaisesToMinimum(enforcementMode, totalSalaryMonthly, totalCTCMonthly, benefitsBreakdown, salaryCap, salaryCapped, ctcCapped, computedMaxCTC) ==
  LET belowMin      == /\ salaryCap.minWPUSalaryAnnual > 0
                       /\ totalSalaryMonthly * 12 < salaryCap.minWPUSalaryAnnual
      clampedSalary == IF salaryCapped
                       THEN Round(salaryCap.maxWPUSalaryAnnual, 12)
                       ELSE IF belowMin
                       THEN Round(salaryCap.minWPUSalaryAnnual, 12)
                       ELSE totalSalaryMonthly
      recomputedCTC == clampedSalary + benefitsBreakdown.totalMonthly
      exceeds       == computedMaxCTC > 0 /\ recomputedCTC * 12 > computedMaxCTC
  IN  IF enforcementMode = "hard"
      THEN [totalSalaryMonthly |-> clampedSalary,
            totalCTCMonthly    |-> IF exceeds THEN Round(computedMaxCTC, 12)
                                   ELSE recomputedCTC,
            ctcCapped          |-> IF exceeds THEN TRUE ELSE ctcCapped]
      ELSE [totalSalaryMonthly |-> totalSalaryMonthly,
            totalCTCMonthly    |-> totalCTCMonthly,
            ctcCapped          |-> ctcCapped]

\* Lines 325-334: in hard mode the monthly salary is clamped, the CTC is
\* recomputed from it and clamped in turn; any other mode changes nothing.
HardClamp(enforcementMode, totalSalaryMonthly, totalCTCMonthly, benefitsBreakdown, salaryCap, salaryCapped, ctcCapped, computedMaxCTC) ==
  LET clampedSalary == IF salaryCapped
                       THEN Round(salaryCap.maxWPUSalaryAnnual, 12)
                       ELSE totalSalaryMonthly
      recomputedCTC == clampedSalary + benefitsBreakdown.totalMonthly
      exceeds       == computedMaxCTC > 0 /\ recomputedCTC * 12 > computedMaxCTC
  IN  IF enforcementMode = "hard"
      THEN [totalSalaryMonthly |-> clampedSalary,
            totalCTCMonthly    |-> IF exceeds THEN Round(computedMaxCTC, 12)
                                   ELSE recomputedCTC,
            ctcCapped          |-> IF exceeds THEN TRUE ELSE ctcCapped]
      ELSE [totalSalaryMonthly |-> totalSalaryMonthly,
            totalCTCMonthly    |-> totalCTCMonthly,
            ctcCapped          |-> ctcCapped]

\* Lines 289-335: the pre-clamp totals, the flags and the clamp.
Enforcement(totalSalaryMonthly, benefitsBreakdown, annualPremium, enforcementMode, premiumRange, salaryCap) ==
  LET totalCTCMonthly      == totalSalaryMonthly + benefitsBreakdown.totalMonthly
      originalSalaryAnnual == totalSalaryMonthly * 12
      originalCTCAnnual    == totalCTCMonthly * 12
      premiumFlags         == PremiumFlags(annualPremium, premiumRange)
      salaryBelowMin == /\ salaryCap.defined
                        /\ salaryCap.minWPUSalaryAnnual > 0
                        /\ totalSalaryMonthly * 12 < salaryCap.minWPUSalaryAnnual
      salaryCapped   == /\ salaryCap.defined
                        /\ salaryCap.maxWPUSalaryAnnual > 0
                        /\ totalSalaryMonthly * 12 > salaryCap.maxWPUSalaryAnnual
      computedMaxCTC == ComputedMaxCTC(salaryCap, benefitsBreakdown)
      ctcCapped      == /\ salaryCap.defined
                        /\ computedMaxCTC > 0
                        /\ totalCTCMonthly * 12 > computedMaxCTC
      final == IF salaryCap.defined
               THEN HardClamp(enforcementMode, totalSalaryMonthly, totalCTCMonthly,
                              benefitsBreakdown, salaryCap, salaryCapped, ctcCapped,
                              computedMaxCTC)
               ELSE [totalSalaryMonthly |-> totalSalaryMonthly,
                     totalCTCMonthly    |-> totalCTCMonthly,
                     ctcCapped          |-> ctcCapped]
  IN  [totalSalaryMonthly |-> final.totalSalaryMonthly,
       totalCTCMonthly    |-> final.totalCTCMonthly,
       enforcement |->
         [salaryCapped         |-> salaryCapped,
          salaryBelowMin       |-> salaryBelowMin,
          ctcCapped            |-> final.ctcCapped,
          premiumBelowMin      |-> premiumFlags.premiumBelowMin,
          premiumAboveMax      |-> premiumFlags.premiumAboveMax,
          originalSalaryAnnual |-> originalSalaryAnnual,
          originalCTCAnnual    |-> originalCTCAnnual]]

\* A plausible slip of line 349: the CTC returned as computed before the clamp.
WPUBreakdown_PreClampCTC(s, benefitsBreakdown, e, specialAllowance, method, strategy) ==
  [basic              |-> s.basic,
   da                 |-> s.da,
   hra                |-> s.hra,
   hraMode            |-> s.hraMode,
   ta                 |-> s.ta,
   specialAllowance   |-> specialAllowance,
   multiplierBonus    |-> s.multiplierBonus,
   premiumMonthly     |-> s.premiumMonthly,
   totalSalaryMonthly |-> e.totalSalaryMonthly,
   totalSalaryAnnual  |-> e.totalSalaryMonthly * 12,
   benefits           |-> benefitsBreakdown,
   totalCTCMonthly    |-> s.totalSalaryMonthly + benefitsBreakdown.totalMonthly,
   totalCTCAnnual     |-> (s.totalSalaryMonthly + benefitsBreakdown.totalMonthly) * 12,
   method             |-> method,
   strategy           |-> strategy,
   enforcement        |-> e.enforcement]

\* Lines 337-362: the returned breakdown.
WPUBreakdown(s, benefitsBreakdown, e, specialAllowance, method, strategy) ==
  [basic              |-> s.basic,
   da                 |-> s.da,
   hra                |-> s.hra,
   hraMode            |-> s.hraMode,
   ta                 |-> s.ta,
   specialAllowance   |-> specialAllowance,
   multiplierBonus    |-> s.multiplierBonus,
   premiumMonthly     |-> s.premiumMonthly,
   totalSalaryMonthly |-> e.totalSalaryMonthly,
   totalSalaryAnnual  |-> e.totalSalaryMonthly * 12,
   benefits           |-> benefitsBreakdown,
   totalCTCMonthly    |-> e.totalCTCMonthly,
   totalCTCAnnual     |-> e.totalCTCMonthly * 12,
   method             |-> method,
   strategy           |-> strategy,
   enforcement        |-> e.enforcement]

calculateWPUSalary(ugcSalary, multiplier, annualPremium, strategy, method, benefits, daPercent, cityType, level, specialAllowance, isTPTACity, hraConfig, enforcementMode, premiumRange, salaryCap) ==
  LET c == MethodComponents(ugcSalary, multiplier, method, daPercent, cityType, level,
                            specialAllowance, isTPTACity, hraConfig)
      s == StrategyResolution(ugcSalary, c, annualPremium, strategy, method,
                              specialAllowance)
      benefitsBreakdown == calculateBenefits(s.basic, benefits)
      e == Enforcement(s.totalSalaryMonthly, benefitsBreakdown, annualPremium,
                       enforcementMode, premiumRange, salaryCap)
  IN  WPUBreakdown(s, benefitsBreakdown, e, specialAllowance, method, strategy)

\* A plausible slip of line 387: the premium taken from the CTC as it stood
\* before enforcement.
ComparisonResult_PreClampCTC(ugc, wpu) ==
  [ugc |-> ugc,
   wpu |-> wpu,
   premiumAmountMonthly |-> (wpu.enforcement.originalCTCAnnual \div 12) - ugc.totalMonthly,
   premiumAmountAnnual  |-> ((wpu.enforcement.originalCTCAnnual \div 12) - ugc.totalMonthly) * 12,
   premiumPercentage    |->
     IF ugc.totalMonthly > 0
     THEN [num |-> (wpu.totalCTCMonthly - ugc.totalMonthly) * 100,
           den |-> ugc.totalMonthly]
     ELSE [num |-> 0, den |-> 1]]

\* A plausible slip of line 389: the percentage computed without the guard.
ComparisonResult_Unguarded(ugc, wpu) ==
  [ugc |-> ugc,
   wpu |-> wpu,
   premiumAmountMonthly |-> wpu.totalCTCMonthly - ugc.totalMonthly,
   premiumAmountAnnual  |-> (wpu.totalCTCMonthly - ugc.totalMonthly) * 12,
   premiumPercentage    |->
     [num |-> (wpu.totalCTCMonthly - ugc.totalMonthly) * 100,
      den |-> ugc.totalMonthly]]

\* Lines 387-397.  premiumPercentage is the fraction num/den (the factor 100 is
\* in num); the guard of line 389 gives 0, written 0/1.
ComparisonResult(ugc, wpu) ==
  [ugc |-> ugc,
   wpu |-> wpu,
   premiumAmountMonthly |-> wpu.totalCTCMonthly - ugc.totalMonthly,
   premiumAmountAnnual  |-> (wpu.totalCTCMonthly - ugc.totalMonthly) * 12,
   premiumPercentage    |->
     IF ugc.totalMonthly > 0
     THEN [num |-> (wpu.totalCTCMonthly - ugc.totalMonthly) * 100,
           den |-> ugc.totalMonthly]
     ELSE [num |-> 0, den |-> 1]]

\* What calculateComparison returns for an undefined basic: the arithmetic on
\* it gives NaN in every amount of both breakdowns.
NaNComparison ==
  [nan |-> TRUE]

\* A plausible slip of line 384: the housing config passed on to the baseline.
calculateComparison_BaselineWithConfig(level, cellIndex, daPercent, cityType, multiplier, annualPremium, strategy, method, benefits, specialAllowance, isTPTACity, hraConfig, enforcementMode, premiumRange, salaryCap) ==
  LET basic == getCellAmount(level, cellIndex)
      ugc   == calculateUGCSalary(basic.number, daPercent, cityType, level,
                                  specialAllowance, isTPTACity, hraConfig)
      wpu   == calculateWPUSalary(ugc, multiplier, annualPremium, strategy, method,
                                  benefits, daPercent, cityType, level, specialAllowance,
                                  isTPTACity, hraConfig, enforcementMode, premiumRange,
                                  salaryCap)
  IN  IF basic.undefined THEN NaNComparison ELSE ComparisonResult(ugc, wpu)

\* Lines 382-385: the baseline is computed without the housing config.
calculateComparison(level, cellIndex, daPercent, cityType, multiplier, annualPremium, strategy, method, benefits, specialAllowance, isTPTACity, hraConfig, enforcementMode, premiumRange, salaryCap) ==
  LET basic == getCellAmount(level, cellIndex)
      ugc   == calculateUGCSalary(basic.number, daPercent, cityType, level,
                                  specialAllowance, isTPTACity, NoHraConfig)
      wpu   == calculateWPUSalary(ugc, multiplier, annualPremium, strategy, method,
                                  benefits, daPercent, cityType, level, specialAllowance,
                                  isTPTACity, hraConfig, enforcementMode, premiumRange,
                                  salaryCap)
  IN  IF basic.undefined THEN NaNComparison ELSE ComparisonResult(ugc, wpu)

(***************************************************************************)
(* Bounds of the model                                                     *)
(***************************************************************************)
\* The experience slider runs 0..30; the model moves it over 0..MaxExperience.
MaxExperience == 1

\* Positions the page selects: one with default salary caps, one without.
SelectablePositions == {1, 7}

\* Positions whose ranges and caps the settings dialog edits.
EditedPositions == {1}

\* Stops of the multiplier slider (1.0 to 3.0 in steps of 0.05), in hundredths.
MultiplierValues == {100, 130, 200}

PremiumValues == {100000, 300000}

PremiumBoundValues == {0, 200000}

SalaryMinValues == {0, 1500000}

\* 2300000 is the default maximum of positions 1-3; 2400000 is a multiple of 12.
SalaryMaxValues == {0, 2300000, 2400000}

CTCMaxValues == {0, 2000000}

LumpSumValues == {0, 12000}

\* Values typed into the housing and PPF inputs of the benefits card; 36250 and
\* 12% are the defaults of levels 10 to 12.
HousingValues == {36250, 45000}

PpfValues == {1000, 1200}

\* Levels whose default may be missing from saved settings.
MissingLevels == {"13A"}

\* Arguments of a direct call of the engine, which the page's controls do not
\* limit: multipliers below and above 1.0 and premiums of either sign, those of
\* 6 and 18 a year being half a rupee off a whole monthly amount.
EngineMultipliers == {50, 130, 150}

EnginePremiums == {-300000, -18, -6, 6, 18, 300000}

\* Arguments of a direct call of calculateComparison and getCellAmount: levels
\* of the pay matrix, a level it lacks, and two names that every object
\* inherits; cell indexes below, inside and past the 40 cells of level 10 and
\* the 8 of level 15; a DA of -100%, which cancels the transport allowance.
CallLevels == {"10", "15", "16", "constructor", "toString"}

CallCells == {-1, 0, 1, 7, 8, 39, 40}

CallDaValues == {-100, 58}

CallStrategies == {"multiplier", "premium"}

CallAllowances == {0, 2000}

\* Stops of the DA slider (0 to 100) and the city classes of the page's select.
DaValues == {50, 58}

CityTypes == {"X", "Y", "Z"}

(***************************************************************************)
(* State: the settings store and the calculator page                       *)
(***************************************************************************)
VARIABLES
  stored,           \* what localStorage held when the SettingsProvider was constructed
  storage,          \* localStorage: the settings blob and the version item
  settings,         \* GlobalSettings held by the SettingsProvider
  positionId,       \* calculator page state ...
  experience,
  cellIndex,
  cellManuallySet,
  daPercent,
  cityType,
  strategy,
  multiplier,
  annualPremium,
  benefits,
  comparison,       \* the memoised calculateComparison result the page renders
  call,             \* the latest direct call of the engine: its arguments and results
  game,             \* SnakeGameState held by the game component
  env,              \* process.env of the sheet proxy: the credentials configured
  sheet,            \* the cells of the remote spreadsheet
  requests,         \* the PATCH requests of the sheet proxy and how far each has got
  apiCalls          \* the calls the proxy has made to the Sheets API

vars ==
  <<stored, storage, settings, positionId, experience, cellIndex, cellManuallySet, daPercent, cityType,
    strategy, multiplier, annualPremium, benefits, comparison, call, game, env, sheet, requests, apiCalls>>

\* The parts of the program outside the settings store and the calculator page.
proxy ==
  <<env, sheet, requests, apiCalls>>

outside ==
  <<call, game, proxy>>

page ==
  <<positionId, experience, cellIndex, cellManuallySet, daPercent, cityType,
    strategy, multiplier, annualPremium, benefits>>

\* A plausible slip of lines 246-251: the level default looked up before the
\* position's override.
getBenefitsForPosition_LevelFirst(p, level) ==
  IF level \in DOMAIN settings.levelBenefits
  THEN settings.levelBenefits[level]
  ELSE IF settings.positionBenefits[p].defined
  THEN settings.positionBenefits[p].benefits
  ELSE settings.globalBenefits

\* README.md lines 245-253: the position's override, else the level's default,
\* else the global default, read from the current settings.
getBenefitsForPosition(p, level) ==
  IF settings.positionBenefits[p].defined
  THEN settings.positionBenefits[p].benefits
  ELSE IF level \in DOMAIN settings.levelBenefits
  THEN settings.levelBenefits[level]
  ELSE settings.globalBenefits

\* README.md lines 274-278.
getBenefitsSource(p, level) ==
  IF settings.positionBenefits[p].defined THEN "position"
  ELSE IF level \in DOMAIN settings.levelBenefits THEN "level"
  ELSE "global"

\* The useMemo of calculator.tsx lines 121-139.
ComparisonOf(s, p, cell, da, city, mult, premium, strat, ben) ==
  calculateComparison(FACULTY_POSITIONS[p].level, cell, da, city, mult, premium, strat,
                      s.multiplierMethod, ben, FACULTY_POSITIONS[p].specialAllowance,
                      s.isTPTACity, s.hraConfig, s.enforcementMode,
                      s.positionPremiumRanges[p], s.positionSalaryCaps[p])

Recompute ==
  comparison' = ComparisonOf(settings', positionId', cellIndex', daPercent', cityType',
                             multiplier', annualPremium', strategy', benefits')

\* SettingsProvider starts from the saved settings merged over the defaults
\* (README.md lines 214-228).  The dialog has inputs for the minimum and the
\* maximum salary only (settings-dialog.tsx lines 339 and 349): an explicit
\* CTC maximum is there only when the saved settings hold one.
SavedSettings(ctcMax) ==
  [DEFAULT_SETTINGS EXCEPT
     !.positionSalaryCaps =
        [p \in DOMAIN DEFAULT_SETTINGS.positionSalaryCaps |->
           IF p \in EditedPositions /\ DEFAULT_SETTINGS.positionSalaryCaps[p].defined
           THEN [DEFAULT_SETTINGS.positionSalaryCaps[p] EXCEPT
                   !.maxWPUCTCAnnual = ctcMax]
           ELSE DEFAULT_SETTINGS.positionSalaryCaps[p]]]

\* An item of localStorage: absent, or present with a value.
NoBlob ==
  [present |-> FALSE, value |-> [f \in {} |-> 0]]

NoVersion ==
  [present |-> FALSE, value |-> 0]

\* Nothing saved yet.
EmptyStorage ==
  [blob |-> NoBlob, version |-> NoVersion]

\* What persist leaves behind for a saved settings object.
Persisted(value) ==
  [blob |-> [present |-> TRUE, value |-> value], version |-> [present |-> TRUE, value |-> SETTINGS_VERSION]]

\* README.md line 219: parseInt of the version item, '0' when it is absent.
\* The item is written as a decimal numeral, which parseInt reads back exactly.
savedVersion(st) ==
  IF st.version.present THEN st.version.value ELSE 0

\* A plausible slip of line 220: only the current version is accepted.
LoadSettings_ExactVersion(st) ==
  IF st.blob.present /\ savedVersion(st) = SETTINGS_VERSION
  THEN st.blob.value @@ DEFAULT_SETTINGS
  ELSE DEFAULT_SETTINGS

\* README.md lines 214-228, the value the initialiser returns: the saved
\* fields spread over the defaults when a blob is present and its version is
\* at least SETTINGS_VERSION, the defaults otherwise.  Blobs are well-formed
\* JSON objects.
LoadSettings(st) ==
  IF st.blob.present /\ savedVersion(st) >= SETTINGS_VERSION
  THEN st.blob.value @@ DEFAULT_SETTINGS
  ELSE DEFAULT_SETTINGS

\* README.md lines 214-228, what the initialiser leaves in localStorage: an
\* accepted blob is left alone, a rejected one is removed, and the version
\* item is rewritten unless the blob was accepted.
StorageAfterLoad(st) ==
  IF st.blob.present /\ savedVersion(st) >= SETTINGS_VERSION
  THEN st
  ELSE [blob |-> NoBlob, version |-> [present |-> TRUE, value |-> SETTINGS_VERSION]]

\* A direct call of getCellAmount and of calculateComparison
\* (salary-calculator.ts lines 78-82 and 365-398), the optional arguments left
\* at their defaults.
CallOf(level, cell, da, strat, special) ==
  [level            |-> level,
   cellIndex        |-> cell,
   daPercent        |-> da,
   strategy         |-> strat,
   specialAllowance |-> special,
   amount           |-> getCellAmount(level, cell),
   result           |-> calculateComparison(level, cell, da, "Y", 130, 300000, strat,
                                            "methodA", DEFAULT_GLOBAL_BENEFITS, special,
                                            FALSE, NoHraConfig, "soft", NoPremiumRange,
                                            NoSalaryCap)]

(***************************************************************************)
(* The snake game (src/unnamed/part_001)                                   *)
(***************************************************************************)
Directions == {"up", "down", "left", "right"}

\* requestedDirection: Direction | null
NoDirection == "null"

Cell(x, y) == [x |-> x, y |-> y]

INITIAL_SNAKE == <<Cell(10, 10), Cell(9, 10), Cell(8, 10)>>

DEFAULT_GRID_SIZE == 20

\* Math.random() lies in [0, 1): modelled as k / RandomSteps for k in 0..RandomSteps-1
RandomSteps == 8

RandomValues == 0..(RandomSteps - 1)

isOppositeDirection(current, next) ==
  \/ current = "up" /\ next = "down"
  \/ current = "down" /\ next = "up"
  \/ current = "left" /\ next = "right"
  \/ current = "right" /\ next = "left"

canTurn(current, next) ==
  current # next /\ ~isOppositeDirection(current, next)

nextHead(head, direction) ==
  CASE direction = "up"    -> Cell(head.x, head.y - 1)
    [] direction = "down"  -> Cell(head.x, head.y + 1)
    [] direction = "left"  -> Cell(head.x - 1, head.y)
    [] direction = "right" -> Cell(head.x + 1, head.y)

isOutOfBounds(cell, gridSize) ==
  cell.x < 0 \/ cell.y < 0 \/ cell.x >= gridSize \/ cell.y >= gridSize

isOnSnake(cell, snake) ==
  \E i \in 1..Len(snake) : snake[i].x = cell.x /\ snake[i].y = cell.y

\* the cells of the grid in the order of the two loops of placeFood: y, then x
GridCells(gridSize) ==
  [i \in 1..(gridSize * gridSize) |-> Cell((i - 1) % gridSize, (i - 1) \div gridSize)]

placeFood_AnyCell(snake, gridSize, random) ==
  GridCells(gridSize)[((random * (gridSize * gridSize)) \div RandomSteps) + 1]

placeFood(snake, gridSize, random) ==
  LET inGrid(c) == ~isOnSnake(c, snake)
      freeCells == SelectSeq(GridCells(gridSize), inGrid)
  IN  IF Len(freeCells) = 0 THEN Cell(-1, -1)
      ELSE freeCells[((random * Len(freeCells)) \div RandomSteps) + 1]

createInitialState(random, gridSize) ==
  [gridSize  |-> gridSize,
   snake     |-> INITIAL_SNAKE,
   direction |-> "right",
   food      |-> placeFood(INITIAL_SNAKE, gridSize, random),
   score     |-> 0,
   gameOver  |-> FALSE,
   paused    |-> FALSE]

\* snake.slice(0, -1)
WithoutLast(snake) ==
  SubSeq(snake, 1, Len(snake) - 1)

stepGame(state, requestedDirection, random) ==
  IF state.gameOver \/ state.paused THEN state
  ELSE
    LET direction == IF requestedDirection # NoDirection /\ canTurn(state.direction, requestedDirection)
                     THEN requestedDirection ELSE state.direction
        head == state.snake[1]
        candidateHead == nextHead(head, direction)
        ateFood == candidateHead.x = state.food.x /\ candidateHead.y = state.food.y
        snakeForCollision == IF ateFood THEN state.snake ELSE WithoutLast(state.snake)
    IN  IF isOutOfBounds(candidateHead, state.gridSize) \/ isOnSnake(candidateHead, snakeForCollision)
        THEN [state EXCEPT !.direction = direction, !.gameOver = TRUE]
        ELSE
          LET nextSnake == IF ateFood THEN <<candidateHead>> \o state.snake
                           ELSE <<candidateHead>> \o WithoutLast(state.snake)
          IN  IF ateFood
              THEN LET nextFood == placeFood(nextSnake, state.gridSize, random)
                       noFoodSlotLeft == nextFood.x < 0 \/ nextFood.y < 0
                   IN  [state EXCEPT !.snake = nextSnake, !.direction = direction,
                                     !.food = nextFood, !.score = state.score + 1,
                                     !.gameOver = noFoodSlotLeft]
              ELSE [state EXCEPT !.snake = nextSnake, !.direction = direction]

togglePause(state) ==
  IF state.gameOver THEN state ELSE [state EXCEPT !.paused = ~state.paused]

(***************************************************************************)
(* The sheet proxy (src/unnamed/part_009, src/server/routes.ts)            *)
(***************************************************************************)
\* process.env as the proxy reads it.  GOOGLE_SERVICE_ACCOUNT_JSON is absent,
\* not JSON ("invalid"), JSON without client_email or private_key
\* ("incomplete") or complete ("valid"); emailAndKey says whether
\* GOOGLE_SERVICE_ACCOUNT_EMAIL and _PRIVATE_KEY are both set; the token and
\* the API key are absent, blank (empty after trim) or set.
Environment(json, emailAndKey, token, key) ==
  [serviceAccountJson |-> json, emailAndKey |-> emailAndKey, accessToken |-> token, apiKey |-> key]

Thrown(status) == [threw |-> TRUE, status |-> status, value |-> "none"]

Returned(value) == [threw |-> FALSE, status |-> 0, value |-> value]

getServiceAccountCredentials(e) ==
  IF e.serviceAccountJson = "valid" THEN Returned("credentials")
  ELSE IF e.serviceAccountJson = "invalid" THEN Thrown(500)
  ELSE IF e.emailAndKey THEN Returned("credentials")
  ELSE Returned("null")

getSyncMode(e) ==
  LET credentials == getServiceAccountCredentials(e)
  IN  IF credentials.threw THEN credentials
      ELSE IF credentials.value # "null" THEN Returned("service_account")
      ELSE IF e.accessToken = "set" THEN Returned("oauth_token")
      ELSE IF e.apiKey = "set" THEN Returned("api_key")
      ELSE Returned("public")

isWriteMode_AnyCredential(mode) ==
  mode # "public"

isWriteMode(mode) ==
  mode = "service_account" \/ mode = "oauth_token"

\* The remote spreadsheet: a grid of cells, "" for an empty cell.
SheetRows == 3

SheetColumns == 2

HeaderRow == <<"Title", "Notes">>

EmptyRow == [c \in 1..SheetColumns |-> ""]

\* toColumnKey on the headers of the sheet: lower case, runs of other
\* characters replaced by "_"; "Column n" / "column_n" for a blank header
toColumnKey(header, index) ==
  CASE header = "Title" -> "title"
    [] header = "Notes" -> "notes"
    [] OTHER -> IF index = 0 THEN "column_1" ELSE "column_2"

headerToLabel(header, index) ==
  IF header # "" THEN header ELSE IF index = 0 THEN "Column 1" ELSE "Column 2"

toLowerCase(s) ==
  CASE s = "Title" -> "title"
    [] s = "Notes" -> "notes"
    [] s = "Column 1" -> "column 1"
    [] s = "Column 2" -> "column 2"
    [] OTHER -> s

\* What GET .../values/A1:ZZ returns: the API leaves out the empty cells at
\* the end of a row and the empty rows at the end of the range.
RECURSIVE TrimRow(_)
TrimRow(row) ==
  IF Len(row) > 0 /\ row[Len(row)] = "" THEN TrimRow(SubSeq(row, 1, Len(row) - 1)) ELSE row

RECURSIVE TrimRows(_)
TrimRows(rows) ==
  IF Len(rows) > 0 /\ rows[Len(rows)] = << >> THEN TrimRows(SubSeq(rows, 1, Len(rows) - 1)) ELSE rows

ValuesOf(grid) ==
  TrimRows([r \in 1..Len(grid) |-> TrimRow(grid[r])])

\* matrixToParsedData: the columns of the header row and the number of data rows
ParsedColumns(matrix) ==
  IF Len(matrix) = 0 THEN << >>
  ELSE [i \in 1..Len(matrix[1]) |->
          [key    |-> toColumnKey(headerToLabel(matrix[1][i], i - 1), i - 1),
           header |-> headerToLabel(matrix[1][i], i - 1)]]

ParsedRowCount(matrix) ==
  IF Len(matrix) = 0 THEN 0 ELSE Len(matrix) - 1

\* getColumnIndexByKey with the lookup of line 812: the key as given, then in
\* lower case, against each column's key, header and lower-case header; the
\* later column wins, as Map.set overwrites.  0 stands for undefined, else
\* the column's position counted from 1.
ColumnMatches(column, key) ==
  key = column.key \/ key = column.header \/ key = toLowerCase(column.header)

LastMatch(columns, key) ==
  LET hits == {i \in 1..Len(columns) : ColumnMatches(columns[i], key)}
  IN  IF hits = {} THEN 0 ELSE CHOOSE i \in hits : \A j \in hits : j <= i

getColumnIndex(columns, key) ==
  IF LastMatch(columns, key) # 0 THEN LastMatch(columns, key)
  ELSE LastMatch(columns, toLowerCase(key))

\* lines 799-802: the existing row padded with "" to the number of columns
WorkingRowOf(matrix, rowNumber, columns) ==
  [i \in 1..Len(columns) |->
     IF rowNumber <= Len(matrix) /\ i <= Len(matrix[rowNumber]) THEN matrix[rowNumber][i] ELSE ""]

\* lines 806-819 for updates whose keys are all known columns
ApplyUpdates(workingRow, columns, updates) ==
  [i \in 1..Len(workingRow) |->
     LET keys == {k \in DOMAIN updates : getColumnIndex(columns, k) = i}
     IN  IF keys = {} THEN workingRow[i] ELSE updates[CHOOSE k \in keys : TRUE]]

NoUpdates == [k \in {} |-> ""]

IdleRequest ==
  [pc |-> "idle", rowNumber |-> 0, updates |-> NoUpdates, mode |-> "none",
   workingRow |-> << >>, status |-> 0]

NoCalls == [reads |-> 0, writes |-> 0, writeModes |-> {}]

\* the requests the proxy handles
Requests == {1, 2}

\* No credentials, an empty spreadsheet, no request received.
ProxyInit ==
  /\ env = Environment("absent", FALSE, "absent", "absent")
  /\ sheet = [r \in 1..SheetRows |-> EmptyRow]
  /\ requests = [r \in Requests |-> IdleRequest]
  /\ apiCalls = NoCalls

\* No direct call made beyond the page's own first computation.
CallInit ==
  call = CallOf("10", 0, 58, "multiplier", 0)

\* useState(() => createInitialState()) of the game component, for the first
\* of the random values; the game is not played in the calculator's behaviours
GameInit ==
  game = createInitialState(0, DEFAULT_GRID_SIZE)

OutsideInit ==
  /\ CallInit
  /\ GameInit
  /\ ProxyInit

\* README.md lines 214-228 with calculator.tsx lines 51-59 and 76: the
\* provider constructed over the given localStorage contents, and the page's
\* state over the loaded settings.
CalculatorInit(st) ==
  /\ stored = st
  /\ storage = StorageAfterLoad(st)
  /\ settings = LoadSettings(st)
  /\ positionId = 1
  /\ experience = 0
  /\ cellIndex = 0
  /\ cellManuallySet = FALSE
  /\ daPercent = settings.daPercentage
  /\ cityType = settings.cityType
  /\ strategy = settings.financialStrategy
  /\ multiplier = settings.baseMultiplier
  /\ annualPremium = settings.annualPremium
  /\ benefits = getBenefitsForPosition(1, FACULTY_POSITIONS[1].level)
  /\ comparison = ComparisonOf(settings, positionId, cellIndex, daPercent, cityType,
                               multiplier, annualPremium, strategy, benefits)

\* The whole program after construction.
InitialPage(st) ==
  /\ CalculatorInit(st)
  /\ OutsideInit

\* Nothing saved: the defaults.
Init ==
  InitialPage(EmptyStorage)

\* Saved settings whose levelBenefits lack some levels: the saved object
\* replaces the default one whole (README.md line 221).
SavedLevelBenefits(missing) ==
  [DEFAULT_SETTINGS EXCEPT
     !.levelBenefits = [l \in DOMAIN DEFAULT_LEVEL_BENEFITS \ missing |->
                          DEFAULT_LEVEL_BENEFITS[l]]]

InitBenefits ==
  \E missing \in SUBSET MissingLevels : InitialPage(Persisted(SavedLevelBenefits(missing)))

\* Saved settings with or without an explicit CTC maximum.
InitSaved ==
  \E ctcMax \in CTCMaxValues : InitialPage(Persisted(SavedSettings(ctcMax)))

(***************************************************************************)
(* Calculator page handlers                                                *)
(***************************************************************************)
handlePositionChange(id) ==
  /\ positionId' = id
  /\ benefits' = getBenefitsForPosition(id, FACULTY_POSITIONS[id].level)
  /\ cellIndex' = suggestCellFromExperience(FACULTY_POSITIONS[id].level, experience)
  /\ cellManuallySet' = FALSE
  /\ UNCHANGED <<stored, storage, settings, experience, daPercent, cityType, strategy, multiplier,
                 annualPremium>>
  /\ Recompute
  /\ UNCHANGED outside

\* setExperience, then the effect of lines 105-110.
handleExperienceChange(val) ==
  /\ experience' = val
  /\ cellIndex' = IF cellManuallySet THEN cellIndex
                  ELSE suggestCellFromExperience(FACULTY_POSITIONS[positionId].level, val)
  /\ UNCHANGED <<stored, storage, settings, positionId, cellManuallySet, daPercent, cityType, strategy,
                 multiplier, annualPremium, benefits>>
  /\ Recompute
  /\ UNCHANGED outside

setStrategy(v) ==
  /\ strategy' = v
  /\ UNCHANGED <<stored, storage, settings, positionId, experience, cellIndex, cellManuallySet, daPercent,
                 cityType, multiplier, annualPremium, benefits>>
  /\ Recompute
  /\ UNCHANGED outside

setMultiplier(v) ==
  /\ multiplier' = v
  /\ UNCHANGED <<stored, storage, settings, positionId, experience, cellIndex, cellManuallySet, daPercent,
                 cityType, strategy, annualPremium, benefits>>
  /\ Recompute
  /\ UNCHANGED outside

setAnnualPremium(v) ==
  /\ annualPremium' = v
  /\ UNCHANGED <<stored, storage, settings, positionId, experience, cellIndex, cellManuallySet, daPercent,
                 cityType, strategy, multiplier, benefits>>
  /\ Recompute
  /\ UNCHANGED outside

setDaPercent(v) ==
  /\ daPercent' = v
  /\ UNCHANGED <<stored, storage, settings, positionId, experience, cellIndex, cellManuallySet, cityType,
                 strategy, multiplier, annualPremium, benefits>>
  /\ Recompute
  /\ UNCHANGED outside

setCityType(v) ==
  /\ cityType' = v
  /\ UNCHANGED <<stored, storage, settings, positionId, experience, cellIndex, cellManuallySet, daPercent,
                 strategy, multiplier, annualPremium, benefits>>
  /\ Recompute
  /\ UNCHANGED outside

(***************************************************************************)
(* Settings dialog handlers (each goes through updateSettings)             *)
(***************************************************************************)
\* README.md lines 230-235.
persist(next) ==
  storage' = [blob |-> [present |-> TRUE, value |-> next], version |-> [present |-> TRUE, value |-> SETTINGS_VERSION]]

\* A plausible slip of line 239: the partial object stored in place of the
\* merged one.
updateSettings_PartialOnly(partial) ==
  /\ settings' = partial @@ settings
  /\ persist(partial)
  /\ UNCHANGED stored
  /\ UNCHANGED page
  /\ Recompute
  /\ UNCHANGED outside

\* README.md lines 237-243: the fields of partial spread over the previous
\* settings, and the result persisted.
updateSettings(partial) ==
  /\ settings' = partial @@ settings
  /\ persist(partial @@ settings)
  /\ UNCHANGED stored
  /\ UNCHANGED page
  /\ Recompute
  /\ UNCHANGED outside

setMultiplierMethod(v) ==
  updateSettings([multiplierMethod |-> v])

setEnforcementMode(v) ==
  updateSettings([enforcementMode |-> v])

setTPTACity(v) ==
  updateSettings([isTPTACity |-> v])

\* The switches and inputs of the housing section are rendered only under the
\* conditions of settings-dialog.tsx lines 172, 183 and 201.
updateHraConfig(field, value) ==
  /\ CASE field = "providingHousing" -> TRUE
       [] field = "stillProvideHra"  -> settings.hraConfig.providingHousing
       [] field = "hraMode"          -> /\ settings.hraConfig.providingHousing
                                        /\ settings.hraConfig.stillProvideHra
       [] field = "lumpSumValue"     -> /\ settings.hraConfig.providingHousing
                                        /\ settings.hraConfig.stillProvideHra
                                        /\ settings.hraConfig.hraMode = "lumpsum"
  /\ updateSettings([hraConfig |-> [settings.hraConfig EXCEPT ![field] = value]])

updatePremiumRange(p, field, value) ==
  LET current == IF settings.positionPremiumRanges[p].defined
                 THEN settings.positionPremiumRanges[p]
                 ELSE [defined |-> TRUE, minPremium |-> 0, maxPremium |-> 0]
  IN  updateSettings([positionPremiumRanges |->
                        [settings.positionPremiumRanges EXCEPT
                           ![p] = [current EXCEPT ![field] = value]]])

updateSalaryCap(p, field, value) ==
  LET current == IF settings.positionSalaryCaps[p].defined
                 THEN settings.positionSalaryCaps[p]
                 ELSE SalaryCap(0, 0, 0)
  IN  updateSettings([positionSalaryCaps |->
                        [settings.positionSalaryCaps EXCEPT
                           ![p] = [current EXCEPT ![field] = value]]])

ToggleHousing ==
  \/ updateHraConfig("providingHousing", ~settings.hraConfig.providingHousing)
  \/ updateHraConfig("stillProvideHra", ~settings.hraConfig.stillProvideHra)

ChooseHra ==
  \/ \E v \in {"percent", "lumpsum"} : updateHraConfig("hraMode", v)
  \/ \E v \in LumpSumValues : updateHraConfig("lumpSumValue", v)

EditPremiumRange ==
  \E p \in EditedPositions, v \in PremiumBoundValues :
    \/ updatePremiumRange(p, "minPremium", v)
    \/ updatePremiumRange(p, "maxPremium", v)

EditSalaryCap ==
  \E p \in EditedPositions :
    \/ \E v \in SalaryMinValues : updateSalaryCap(p, "minWPUSalaryAnnual", v)
    \/ \E v \in SalaryMaxValues : updateSalaryCap(p, "maxWPUSalaryAnnual", v)

(***************************************************************************)
(* Benefits card of the page and the provider's override operations        *)
(***************************************************************************)
\* README.md lines 254-263.
setBenefitsForPosition(p, b) ==
  /\ settings' = [settings EXCEPT !.positionBenefits[p] = [defined |-> TRUE, benefits |-> b]]
  /\ persist([settings EXCEPT !.positionBenefits[p] = [defined |-> TRUE, benefits |-> b]])

\* README.md lines 265-272.
clearPositionBenefits(p) ==
  /\ settings' = [settings EXCEPT !.positionBenefits[p] = NoPositionBenefits]
  /\ persist([settings EXCEPT !.positionBenefits[p] = NoPositionBenefits])

\* calculator.tsx lines 201-207.
updateBenefit(key, value) ==
  /\ setBenefitsForPosition(positionId, [benefits EXCEPT ![key] = value])
  /\ benefits' = [benefits EXCEPT ![key] = value]
  /\ UNCHANGED <<stored, positionId, experience, cellIndex, cellManuallySet, daPercent,
                 cityType, strategy, multiplier, annualPremium>>
  /\ Recompute
  /\ UNCHANGED outside

\* calculator.tsx lines 209-212, with the effect of lines 88-90 that runs once
\* the provider has rendered the cleared settings: the handler's own
\* setBenefits still reads the override, the effect then sets the default.
resetBenefitsToLevelDefaults ==
  /\ clearPositionBenefits(positionId)
  /\ UNCHANGED <<stored, positionId, experience, cellIndex, cellManuallySet, daPercent,
                 cityType, strategy, multiplier, annualPremium>>
  /\ benefits' = getBenefitsForPosition(positionId, FACULTY_POSITIONS[positionId].level)'
  /\ Recompute
  /\ UNCHANGED outside

\* README.md lines 280-283, with the effect of calculator.tsx lines 88-90
\* that re-resolves the benefits card over the new settings; the version item
\* stays.
resetToDefaults ==
  /\ settings' = DEFAULT_SETTINGS
  /\ storage' = [storage EXCEPT !.blob = NoBlob]
  /\ UNCHANGED <<stored, positionId, experience, cellIndex, cellManuallySet, daPercent,
                 cityType, strategy, multiplier, annualPremium>>
  /\ benefits' = getBenefitsForPosition(positionId, FACULTY_POSITIONS[positionId].level)'
  /\ Recompute
  /\ UNCHANGED outside

\* The page opened again: the provider and the page are constructed anew over
\* what localStorage holds now (README.md lines 214-228, calculator.tsx lines
\* 51-59 and 76).
Reload ==
  /\ stored' = storage
  /\ storage' = StorageAfterLoad(storage)
  /\ settings' = LoadSettings(storage)
  /\ positionId' = 1
  /\ experience' = 0
  /\ cellIndex' = 0
  /\ cellManuallySet' = FALSE
  /\ daPercent' = settings'.daPercentage
  /\ cityType' = settings'.cityType
  /\ strategy' = settings'.financialStrategy
  /\ multiplier' = settings'.baseMultiplier
  /\ annualPremium' = settings'.annualPremium
  /\ benefits' = getBenefitsForPosition(1, FACULTY_POSITIONS[1].level)'
  /\ Recompute
  /\ UNCHANGED outside

EditBenefits ==
  \/ \E v \in HousingValues : updateBenefit("housing", v)
  \/ \E v \in PpfValues : updateBenefit("ppfPercent", v)

(***************************************************************************)
(* The engine called directly                                              *)
(***************************************************************************)
\* calculateComparison is exported and takes plain numbers: a caller other
\* than the page passes any multiplier and premium.  The page's variables
\* hold the arguments of the call and comparison its result.
EngineCall(m, premium, strat, method) ==
  /\ multiplier' = m
  /\ annualPremium' = premium
  /\ strategy' = strat
  /\ settings' = [settings EXCEPT !.multiplierMethod = method]
  /\ UNCHANGED <<stored, storage, positionId, experience, cellIndex, cellManuallySet,
                 daPercent, cityType, benefits>>
  /\ Recompute
  /\ UNCHANGED outside

(***************************************************************************)
(* Specifications.  The page's own controls are common; PageSpec adds the  *)
(* allowance inputs, the method and the housing section of the dialog,     *)
(* EnforcementSpec the enforcement section (mode, premium ranges, salary   *)
(* caps).  Spec is the whole dialog and page together.                     *)
(***************************************************************************)
PageNext ==
  \/ \E id \in SelectablePositions : handlePositionChange(id)
  \/ \E val \in 0..MaxExperience : handleExperienceChange(val)
  \/ \E v \in FINANCIAL_STRATEGIES : setStrategy(v)
  \/ \E v \in MultiplierValues : setMultiplier(v)
  \/ \E v \in PremiumValues : setAnnualPremium(v)
  \/ \E v \in MULTIPLIER_METHODS : setMultiplierMethod(v)

AllowanceNext ==
  \/ \E v \in DaValues : setDaPercent(v)
  \/ \E v \in CityTypes : setCityType(v)
  \/ \E v \in BOOLEAN : setTPTACity(v)
  \/ ToggleHousing
  \/ ChooseHra

EnforcementNext ==
  \/ \E v \in {"soft", "hard"} : setEnforcementMode(v)
  \/ EditPremiumRange
  \/ EditSalaryCap

PageSpec ==
  Init /\ [][PageNext \/ AllowanceNext]_vars

EnforcementSpec ==
  InitSaved /\ [][PageNext \/ EnforcementNext]_vars

\* Blobs found in localStorage on load: none, a whole settings object saved in
\* hard enforcement mode, and an object holding only the TPTA flag.
StoredBlobs ==
  {NoBlob,
   [present |-> TRUE, value |-> [DEFAULT_SETTINGS EXCEPT !.enforcementMode = "hard"]],
   [present |-> TRUE, value |-> [isTPTACity |-> TRUE]]}

\* Version items found on load: none, an older one, the current one and a
\* newer one.
StoredVersions ==
  {NoVersion} \cup {[present |-> TRUE, value |-> v] : v \in {5, SETTINGS_VERSION, 8}}

InitStored ==
  \E b \in StoredBlobs, v \in StoredVersions : InitialPage([blob |-> b, version |-> v])

LoadNext ==
  \/ \E id \in SelectablePositions : handlePositionChange(id)
  \/ \E v \in BOOLEAN : setTPTACity(v)
  \/ \E v \in {"soft", "hard"} : setEnforcementMode(v)
  \/ resetToDefaults
  \/ Reload

LoadSpec ==
  InitStored /\ [][LoadNext]_vars

\* The settings store on one position: dialog switches, the benefits card, the
\* reset and the reload.
StoreNext ==
  \/ \E v \in BOOLEAN : setTPTACity(v)
  \/ \E v \in {"soft", "hard"} : setEnforcementMode(v)
  \/ EditBenefits
  \/ resetBenefitsToLevelDefaults
  \/ resetToDefaults
  \/ Reload

StoreSpec ==
  InitStored /\ [][StoreNext]_vars

BenefitsNext ==
  \/ \E id \in SelectablePositions : handlePositionChange(id)
  \/ \E val \in 0..MaxExperience : handleExperienceChange(val)
  \/ \E v \in FINANCIAL_STRATEGIES : setStrategy(v)
  \/ EditBenefits
  \/ resetBenefitsToLevelDefaults

BenefitsSpec ==
  InitBenefits /\ [][BenefitsNext]_vars

\* salary-calculator.ts lines 78-82 and 365-398 called directly.
DirectCall(level, cell, da, strat, special) ==
  /\ call' = CallOf(level, cell, da, strat, special)
  /\ UNCHANGED <<stored, storage, settings, positionId, experience, cellIndex,
                 cellManuallySet, daPercent, cityType, strategy, multiplier,
                 annualPremium, benefits, comparison, game, proxy>>

CallNext ==
  \E level \in CallLevels, cell \in CallCells, da \in CallDaValues,
     strat \in CallStrategies, special \in CallAllowances :
    DirectCall(level, cell, da, strat, special)

CallSpec ==
  Init /\ [][CallNext]_vars

EngineNext ==
  \E m \in EngineMultipliers, premium \in EnginePremiums,
     strat \in FINANCIAL_STRATEGIES, method \in MULTIPLIER_METHODS :
    EngineCall(m, premium, strat, method)

EngineSpec ==
  Init /\ [][EngineNext]_vars

(***************************************************************************)
(* The arguments the page passes on (calculator.tsx lines 121-139)         *)
(***************************************************************************)
position ==
  FACULTY_POSITIONS[positionId]

CurrentPremiumRange ==
  settings.positionPremiumRanges[positionId]

CurrentSalaryCap ==
  settings.positionSalaryCaps[positionId]

ugc ==
  comparison.ugc

wpu ==
  comparison.wpu

\* The method-dependent components the current inputs give, before the strategy.
CurrentComponents ==
  MethodComponents(ugc, multiplier, settings.multiplierMethod, daPercent, cityType,
                   position.level, position.specialAllowance, settings.isTPTACity,
                   settings.hraConfig)

\* r is an integer nearest to n/d (d > 0), whichever way a tie goes.
IsNearest(r, n, d) ==
  /\ 2 * (d * r - n) <= d
  /\ 2 * (n - d * r) <= d

(***************************************************************************)
(* Strategy resolution                                                     *)
(***************************************************************************)
\* C1: the pre-clamp monthly salary (enforcement.originalSalaryAnnual / 12) is,
\* per strategy: multiplier -> baseSalaryMonthly; premium -> baseline total +
\* round(annualPremium / 12); both -> baseSalaryMonthly + round(annualPremium / 12);
\* higher -> the larger of the multiplier and premium results; lower -> the
\* smaller; baseSalaryMonthly being basic + DA + HRA + TA + special +
\* multiplierBonus of the method-dependent components.
C1_PreClampSalaryByStrategy ==
  LET baseSalaryMonthly == CurrentComponents.basic + CurrentComponents.da
                           + CurrentComponents.hra + CurrentComponents.ta
                           + position.specialAllowance
                           + CurrentComponents.multiplierBonus
      premiumTotal      == ugc.totalMonthly + Round(annualPremium, 12)
      expected ==
        CASE strategy = "multiplier" -> baseSalaryMonthly
          [] strategy = "premium"    -> premiumTotal
          [] strategy = "both"       -> baseSalaryMonthly + Round(annualPremium, 12)
          [] strategy = "higher"     -> IF baseSalaryMonthly >= premiumTotal
                                        THEN baseSalaryMonthly ELSE premiumTotal
          [] strategy = "lower"      -> IF baseSalaryMonthly <= premiumTotal
                                        THEN baseSalaryMonthly ELSE premiumTotal
  IN  wpu.enforcement.originalSalaryAnnual = 12 * expected

\* Strategy "higher" resolved to the premium path, under methodA with the HRA
\* switched off by the housing config.
C1_Witness ==
  /\ strategy = "higher"
  /\ settings.multiplierMethod = "methodA"
  /\ wpu.hraMode = "none"
  /\ wpu.premiumMonthly > 0
  /\ wpu.enforcement.originalSalaryAnnual
       = 12 * (ugc.totalMonthly + Round(annualPremium, 12))

EffectiveMaxCTC ==
  IF ~CurrentSalaryCap.defined THEN 0
  ELSE IF CurrentSalaryCap.maxWPUCTCAnnual > 0 THEN CurrentSalaryCap.maxWPUCTCAnnual
  ELSE IF CurrentSalaryCap.maxWPUSalaryAnnual > 0
       THEN CurrentSalaryCap.maxWPUSalaryAnnual + wpu.benefits.totalAnnual
       ELSE 0

\* C3: in hard mode with a positive maximum salary, a pre-clamp annual salary
\* above the maximum gives salaryCapped and a returned totalSalaryAnnual equal
\* to the maximum exactly.
C3_HardCapIsExact ==
  ( /\ settings.enforcementMode = "hard"
    /\ CurrentSalaryCap.defined
    /\ CurrentSalaryCap.maxWPUSalaryAnnual > 0
    /\ wpu.enforcement.originalSalaryAnnual > CurrentSalaryCap.maxWPUSalaryAnnual )
  => /\ wpu.enforcement.salaryCapped
     /\ wpu.totalSalaryAnnual = CurrentSalaryCap.maxWPUSalaryAnnual

\* C4: in hard mode with a positive effective max CTC, the returned
\* totalCTCAnnual never exceeds the effective max CTC.
C4_HardCTCWithinCap ==
  (settings.enforcementMode = "hard" /\ EffectiveMaxCTC > 0)
  => wpu.totalCTCAnnual <= EffectiveMaxCTC

\* C5: in soft mode the returned totals are the unclamped ones, whatever the
\* caps and ranges: totalSalaryAnnual = originalSalaryAnnual and
\* totalCTCAnnual = originalCTCAnnual.
C5_SoftModeKeepsTotals ==
  settings.enforcementMode = "soft"
  => /\ wpu.totalSalaryAnnual = wpu.enforcement.originalSalaryAnnual
     /\ wpu.totalCTCAnnual = wpu.enforcement.originalCTCAnnual

\* Soft mode with both the salary and the CTC above their maxima.
C5_Witness ==
  /\ settings.enforcementMode = "soft"
  /\ wpu.enforcement.salaryCapped
  /\ wpu.enforcement.ctcCapped
  /\ wpu.totalSalaryAnnual > CurrentSalaryCap.maxWPUSalaryAnnual

\* C6: each flag equals its reference predicate on the pre-clamp values, a
\* bound being active only when positive, and every flag is false when its cap
\* or range object is absent.
C6_FlagsMatchReference ==
  /\ wpu.enforcement.salaryCapped
       <=> /\ CurrentSalaryCap.defined
           /\ CurrentSalaryCap.maxWPUSalaryAnnual > 0
           /\ wpu.enforcement.originalSalaryAnnual > CurrentSalaryCap.maxWPUSalaryAnnual
  /\ wpu.enforcement.salaryBelowMin
       <=> /\ CurrentSalaryCap.defined
           /\ CurrentSalaryCap.minWPUSalaryAnnual > 0
           /\ wpu.enforcement.originalSalaryAnnual < CurrentSalaryCap.minWPUSalaryAnnual
  /\ wpu.enforcement.ctcCapped
       <=> /\ EffectiveMaxCTC > 0
           /\ wpu.enforcement.originalCTCAnnual > EffectiveMaxCTC
  /\ wpu.enforcement.premiumAboveMax
       <=> /\ CurrentPremiumRange.defined
           /\ CurrentPremiumRange.maxPremium > 0
           /\ annualPremium > CurrentPremiumRange.maxPremium
  /\ wpu.enforcement.premiumBelowMin
       <=> /\ CurrentPremiumRange.defined
           /\ CurrentPremiumRange.minPremium > 0
           /\ annualPremium < CurrentPremiumRange.minPremium

\* Hard mode, the salary clamped, with the maximum salary alone configured
\* (the CTC cap is the derived one) and the premium above its range.
C6_Witness ==
  /\ settings.enforcementMode = "hard"
  /\ wpu.enforcement.salaryCapped
  /\ wpu.enforcement.ctcCapped
  /\ ~wpu.enforcement.salaryBelowMin
  /\ wpu.enforcement.premiumAboveMax
  /\ CurrentSalaryCap.maxWPUCTCAnnual = 0
  /\ wpu.totalSalaryAnnual < wpu.enforcement.originalSalaryAnnual

\* C7: with every other input the same, soft mode and hard mode give the same
\* enforcement.originalSalaryAnnual, the same enforcement.originalCTCAnnual and
\* the same five flags.
C7_AuditIndependentOfMode ==
  LET otherMode == IF settings.enforcementMode = "hard" THEN "soft" ELSE "hard"
      twin == calculateWPUSalary(ugc, multiplier, annualPremium, strategy,
                                 settings.multiplierMethod, benefits, daPercent,
                                 cityType, position.level, position.specialAllowance,
                                 settings.isTPTACity, settings.hraConfig, otherMode,
                                 CurrentPremiumRange, CurrentSalaryCap)
  IN  /\ twin.enforcement.originalSalaryAnnual = wpu.enforcement.originalSalaryAnnual
      /\ twin.enforcement.originalCTCAnnual = wpu.enforcement.originalCTCAnnual
      /\ twin.enforcement.salaryCapped = wpu.enforcement.salaryCapped
      /\ twin.enforcement.salaryBelowMin = wpu.enforcement.salaryBelowMin
      /\ twin.enforcement.ctcCapped = wpu.enforcement.ctcCapped
      /\ twin.enforcement.premiumBelowMin = wpu.enforcement.premiumBelowMin
      /\ twin.enforcement.premiumAboveMax = wpu.enforcement.premiumAboveMax

\* Hard mode with a maximum salary that is a whole number of months and no
\* explicit CTC maximum: the clamp lowers both totals, and the CTC recomputed
\* from the clamped salary no longer exceeds the derived cap.
C7_Witness ==
  /\ settings.enforcementMode = "hard"
  /\ CurrentSalaryCap.defined
  /\ CurrentSalaryCap.maxWPUCTCAnnual = 0
  /\ wpu.enforcement.salaryCapped
  /\ wpu.enforcement.ctcCapped
  /\ wpu.totalSalaryAnnual = CurrentSalaryCap.maxWPUSalaryAnnual
  /\ wpu.totalSalaryAnnual < wpu.enforcement.originalSalaryAnnual
  /\ wpu.totalCTCAnnual = EffectiveMaxCTC
  /\ wpu.totalCTCAnnual < wpu.enforcement.originalCTCAnnual

ConfiguredHRA(basic) ==
  IF settings.hraConfig.providingHousing /\ ~settings.hraConfig.stillProvideHra
  THEN [amount |-> 0, mode |-> "none"]
  ELSE IF settings.hraConfig.hraMode = "lumpsum"
  THEN [amount |-> settings.hraConfig.lumpSumValue, mode |-> "lumpsum"]
  ELSE [amount |-> Round(basic * HRA_RATES[cityType], 100), mode |-> "percent"]

\* Position 1 at the first cell of its level (basic 57700), DA 58%, a Y
\* city that is not a TPTA city, the percentage HRA, methodA, multiplier 1.3,
\* multiplier-only.
Scenario2 ==
  /\ positionId = 1
  /\ cellIndex = 0
  /\ daPercent = 58
  /\ cityType = "Y"
  /\ ~settings.isTPTACity
  /\ wpu.hraMode = "percent"
  /\ settings.multiplierMethod = "methodA"
  /\ multiplier = 130
  /\ strategy = "multiplier"

\* C9: under methodA basic, DA and TA are the baseline's and multiplierBonus is
\* (basic + DA + HRA + TA + special) * (multiplier - 1), rounded; under methodB
\* basic is baseline basic * multiplier, rounded, DA, HRA and TA are recomputed
\* from that basic with the baseline formulas and multiplierBonus is 0.  These
\* are the components returned when the strategy keeps the multiplier path
\* (multiplier, both).  Scenario 2: baseline 108394, percentage HRA, methodA,
\* multiplier 1.3, strategy multiplier give bonus 32518 and salary 140912.
C9_MethodComponents ==
  /\ ( /\ strategy \in {"multiplier", "both"}
       /\ settings.multiplierMethod = "methodA" )
     => /\ wpu.basic = ugc.basic
        /\ wpu.da = ugc.da
        /\ wpu.ta = ugc.ta
        /\ IsNearest(wpu.multiplierBonus,
                     (wpu.basic + wpu.da + wpu.hra + wpu.ta + wpu.specialAllowance)
                       * (multiplier - 100), 100)
  /\ ( /\ strategy \in {"multiplier", "both"}
       /\ settings.multiplierMethod = "methodB" )
     => /\ IsNearest(wpu.basic, ugc.basic * multiplier, 100)
        /\ IsNearest(wpu.da, wpu.basic * daPercent, 100)
        /\ wpu.hra = ConfiguredHRA(wpu.basic).amount
        /\ wpu.hraMode = ConfiguredHRA(wpu.basic).mode
        /\ wpu.ta = calculateTA(position.level, daPercent, settings.isTPTACity)
        /\ wpu.multiplierBonus = 0
  /\ Scenario2
     => /\ ugc.totalMonthly = 108394
        /\ wpu.multiplierBonus = 32518
        /\ wpu.totalSalaryMonthly = 140912

\* Scenario 2 on the page: the housing config pays the baseline's percentage
\* HRA, and the bonus is 30% of the baseline total.
C9_Witness ==
  /\ Scenario2
  /\ wpu.hra = ugc.hra
  /\ wpu.multiplierBonus = 32518
  /\ wpu.totalSalaryMonthly = 140912

\* C10 as stated: under methodA, for every strategy, HRA config and multiplier,
\* the returned basic, DA, HRA and TA equal the baseline's.
C10_MethodAIsBaselineEqual ==
  settings.multiplierMethod = "methodA"
  => /\ wpu.basic = ugc.basic
     /\ wpu.da = ugc.da
     /\ wpu.hra = ugc.hra
     /\ wpu.ta = ugc.ta

\* C10 as the code has it: under methodA, for every strategy and multiplier,
\* the returned basic, DA and TA equal the baseline's; the returned HRA and
\* hraMode are the housing config's rule applied to the baseline basic, which
\* is the baseline's HRA only in percentage mode with HRA paid.
C10_MethodABaselineExceptHRA ==
  settings.multiplierMethod = "methodA"
  => /\ wpu.basic = ugc.basic
     /\ wpu.da = ugc.da
     /\ wpu.ta = ugc.ta
     /\ wpu.hra = ConfiguredHRA(ugc.basic).amount
     /\ wpu.hraMode = ConfiguredHRA(ugc.basic).mode
     /\ wpu.hraMode = "percent" => wpu.hra = ugc.hra

\* methodA with a lump-sum HRA that is not the baseline's percentage HRA.
C10_Witness ==
  /\ settings.multiplierMethod = "methodA"
  /\ wpu.hraMode = "lumpsum"
  /\ wpu.hra = 12000
  /\ ugc.hraMode = "percent"
  /\ wpu.hra # ugc.hra
  /\ wpu.basic = ugc.basic

(***************************************************************************)
(* Housing config                                                          *)
(***************************************************************************)
\* C11: for every strategy and under methodA and methodB alike, the returned
\* wpu.hra and wpu.hraMode are the housing config's rule applied to the
\* returned wpu.basic: calculateHRA(wpu.basic, cityType, hraConfig).
C11_ReturnedHRAFollowsConfig ==
  /\ wpu.hra = calculateHRA(wpu.basic, cityType, settings.hraConfig).amount
  /\ wpu.hraMode = calculateHRA(wpu.basic, cityType, settings.hraConfig).mode

\* C12: the baseline of calculateComparison does not depend on the housing
\* config: a second call that differs only in hraConfig returns the same ugc,
\* whose HRA is the city's percentage of the basic with mode percent.
C12_BaselineIgnoresHraConfig ==
  /\ \A other \in {NoHraConfig, DEFAULT_HRA_CONFIG, [DEFAULT_HRA_CONFIG EXCEPT !.stillProvideHra = TRUE, !.hraMode = "lumpsum", !.lumpSumValue = 12000]} :
       calculateComparison(position.level, cellIndex, daPercent, cityType, multiplier,
                           annualPremium, strategy, settings.multiplierMethod, benefits,
                           position.specialAllowance, settings.isTPTACity, other,
                           settings.enforcementMode, CurrentPremiumRange,
                           CurrentSalaryCap).ugc = ugc
  /\ ugc.hraMode = "percent"
  /\ IsNearest(ugc.hra, ugc.basic * HRA_RATES[cityType], 100)

\* A lump-sum housing config in an X city: the enhanced breakdown pays the lump
\* sum, the baseline the 30% of its basic.
C12_Witness ==
  /\ settings.hraConfig.hraMode = "lumpsum"
  /\ settings.hraConfig.lumpSumValue = 12000
  /\ cityType = "X"
  /\ wpu.hraMode = "lumpsum"
  /\ wpu.hra = 12000
  /\ ugc.hraMode = "percent"
  /\ 10 * ugc.hra = 3 * ugc.basic

\* C13: after any sequence of dialog operations on the housing config, whenever
\* providingHousing is false the WPU HRA is the standard percentage HRA:
\* mode percent, amount round(basic * cityRate / 100).
C13_NoHousingMeansPercentHRA ==
  ~settings.hraConfig.providingHousing
  => /\ CurrentComponents.hraMode = "percent"
     /\ IsNearest(CurrentComponents.hra,
                  CurrentComponents.basic * HRA_RATES[cityType], 100)

ReferenceTA(levelNum, p, tpta) ==
  LET base == IF levelNum >= 9 THEN (IF tpta THEN 7200 ELSE 3600)
              ELSE IF levelNum >= 3 THEN (IF tpta THEN 3600 ELSE 1800)
              ELSE (IF tpta THEN 1350 ELSE 900)
  IN  base + ((2 * base * p + 100) \div 200)

\* The levels of the three brackets on which calculateTA is evaluated.
BracketLevels ==
  <<[level |-> "1", num |-> 1], [level |-> "2", num |-> 2], [level |-> "3", num |-> 3],
    [level |-> "8", num |-> 8], [level |-> "9", num |-> 9], [level |-> "10", num |-> 10],
    [level |-> "13A", num |-> 13], [level |-> "15", num |-> 15]>>

\* C15: calculateUGCSalary returns totalMonthly = basic + DA + HRA + TA +
\* specialAllowance and totalAnnual = 12 * totalMonthly, with DA = round(basic *
\* p / 100) and TA = base + round(base * p / 100), base chosen by the level
\* bracket (>= 9, 3-8, 1-2; "13A" counted as 13) and the TPTA flag.  Scenario 1:
\* level 10 cell 0 (57700), DA 58%, city Y, no special allowance, no housing
\* config give DA 33466, HRA 11540, TA 5688, monthly 108394, annual 1300728.
C15_BaselineTotals ==
  /\ ugc.basic = getCellAmount(position.level, cellIndex).number
  /\ ugc.specialAllowance = position.specialAllowance
  /\ ugc.totalMonthly = ugc.basic + ugc.da + ugc.hra + ugc.ta + ugc.specialAllowance
  /\ ugc.totalAnnual = 12 * ugc.totalMonthly
  /\ IsNearest(ugc.da, ugc.basic * daPercent, 100)
  /\ ugc.ta = ReferenceTA(IF position.level = "13A" THEN 13 ELSE 10, daPercent,
                          settings.isTPTACity)
  /\ \A i \in DOMAIN BracketLevels, tpta \in BOOLEAN :
       calculateTA(BracketLevels[i].level, daPercent, tpta)
         = ReferenceTA(BracketLevels[i].num, daPercent, tpta)
  /\ ( /\ positionId = 1
       /\ cellIndex = 0
       /\ daPercent = 58
       /\ cityType = "Y"
       /\ ~settings.isTPTACity )
     => /\ ugc.basic = 57700
        /\ ugc.da = 33466
        /\ ugc.hra = 11540
        /\ ugc.ta = 5688
        /\ ugc.totalMonthly = 108394
        /\ ugc.totalAnnual = 1300728

\* A level-13A position with its special allowance in a TPTA city: TA on the
\* higher base of the top bracket, the allowance in the total.
C15_Witness ==
  /\ position.level = "13A"
  /\ position.specialAllowance > 0
  /\ settings.isTPTACity
  /\ daPercent = 50
  /\ ugc.ta = 10800
  /\ ugc.totalMonthly = ugc.basic + ugc.da + ugc.hra + ugc.ta + position.specialAllowance

(***************************************************************************)
(* Strategies higher and lower                                             *)
(***************************************************************************)
\* calculateWPUSalary on the page's inputs with the strategy replaced.
WithStrategy(s) ==
  calculateWPUSalary(ugc, multiplier, annualPremium, s, settings.multiplierMethod,
                     benefits, daPercent, cityType, position.level,
                     position.specialAllowance, settings.isTPTACity, settings.hraConfig,
                     settings.enforcementMode, CurrentPremiumRange, CurrentSalaryCap)

\* C16: for identical inputs the totalSalaryMonthly returned under strategy
\* higher is greater than or equal to the one returned under lower, and each of
\* the two results reports multiplierBonus or premiumMonthly as 0.
C16_HigherAtLeastLower ==
  LET high == WithStrategy("higher")
      low  == WithStrategy("lower")
  IN  /\ strategy = "higher" => wpu = high
      /\ strategy = "lower" => wpu = low
      /\ high.totalSalaryMonthly >= low.totalSalaryMonthly
      /\ high.multiplierBonus = 0 \/ high.premiumMonthly = 0
      /\ low.multiplierBonus = 0 \/ low.premiumMonthly = 0

\* Strategy higher on the page, resolved to the multiplier path with a bonus,
\* and strictly above what lower returns for the same inputs.
C16_Witness ==
  /\ strategy = "higher"
  /\ wpu.multiplierBonus > 0
  /\ wpu.premiumMonthly = 0
  /\ WithStrategy("lower").premiumMonthly > 0
  /\ wpu.totalSalaryMonthly > WithStrategy("lower").totalSalaryMonthly

(***************************************************************************)
(* Rounding                                                                *)
(***************************************************************************)
\* r is n/d (d > 0) rounded to the nearest integer, a tie going up.
IsHalfUp(r, n, d) ==
  /\ 2 * d * r <= 2 * n + d
  /\ 2 * n + d < 2 * d * (r + 1)

\* r is n/d (d > 0) rounded to the nearest integer, a tie going away from zero.
IsHalfAwayFromZero(r, n, d) ==
  IF n >= 0 THEN IsHalfUp(r, n, d) ELSE IsHalfUp(-r, -n, d)

\* The roundings of the engine as the returned breakdowns show them: each
\* entry is a result with the numerator and denominator it was rounded from.
Roundings ==
  LET c == CurrentComponents
      taBase == IF settings.isTPTACity THEN TA_RATES.level9Plus.tptaCity
                ELSE TA_RATES.level9Plus.otherCity
  IN  { [r |-> ugc.da, n |-> ugc.basic * daPercent, d |-> 100],
        [r |-> ugc.hra, n |-> ugc.basic * HRA_RATES[cityType], d |-> 100],
        [r |-> ugc.ta - taBase, n |-> taBase * daPercent, d |-> 100],
        [r |-> wpu.benefits.ppfAmount, n |-> wpu.basic * benefits.ppfPercent, d |-> 10000],
        [r |-> wpu.benefits.gratuityAmount, n |-> wpu.basic * benefits.gratuityPercent,
         d |-> 10000] }
      \cup (IF settings.multiplierMethod = "methodA"
            THEN { [r |-> c.multiplierBonus,
                    n |-> (c.basic + c.da + c.hra + c.ta + position.specialAllowance)
                          * (multiplier - 100),
                    d |-> 100] }
            ELSE { [r |-> c.basic, n |-> ugc.basic * multiplier, d |-> 100],
                   [r |-> c.da, n |-> c.basic * daPercent, d |-> 100] })
      \cup (IF strategy \in {"premium", "both"}
            THEN { [r |-> wpu.premiumMonthly, n |-> annualPremium, d |-> 12] }
            ELSE {})

\* C17 as stated: every intermediate rounding (DA, percentage HRA, DA on TA,
\* multiplierBonus, methodB basic, monthly premium, PPF and gratuity amounts)
\* rounds half away from zero, negative quantities included.
C17_RoundsHalfAwayFromZero ==
  \A x \in Roundings : IsHalfAwayFromZero(x.r, x.n, x.d)

\* C17 as the code has it: every intermediate rounding is Math.round, the
\* nearest integer with a tie going up; that is half away from zero for
\* quantities that are not negative, and towards zero for a negative tie.
C17_RoundsHalfUp ==
  /\ \A x \in Roundings : IsHalfUp(x.r, x.n, x.d)
  /\ \A x \in Roundings : x.n >= 0 => IsHalfAwayFromZero(x.r, x.n, x.d)

\* A premium of -6 a year is -0.5 a month, reported as 0; under methodA with
\* multiplier 0.5 the bonus is negative.
C17_Witness ==
  /\ annualPremium = -6
  /\ strategy = "both"
  /\ wpu.premiumMonthly = 0
  /\ settings.multiplierMethod = "methodA"
  /\ multiplier = 50
  /\ wpu.multiplierBonus < 0

(***************************************************************************)
(* C18: three-tier benefits resolution                                     *)
(***************************************************************************)
\* The tier that answers for position p at a level, read from the fields of a
\* settings record.
TierOf(s, p, level) ==
  IF s.positionBenefits[p].defined THEN "position"
  ELSE IF level \in DOMAIN s.levelBenefits THEN "level"
  ELSE "global"

TierValue(s, p, level) ==
  CASE TierOf(s, p, level) = "position" -> s.positionBenefits[p].benefits
    [] TierOf(s, p, level) = "level" -> s.levelBenefits[level]
    [] OTHER -> s.globalBenefits

\* In every state, for every position and level, the lookup returns the
\* override if one is set, else the level default if one exists, else the
\* global default, getBenefitsSource names that tier, and the benefits card
\* shows the lookup's answer for the selected position.
C18_Chain ==
  /\ \A p \in DOMAIN FACULTY_POSITIONS, level \in DOMAIN DEFAULT_LEVEL_BENEFITS :
       /\ getBenefitsForPosition(p, level) = TierValue(settings, p, level)
       /\ getBenefitsSource(p, level) = TierOf(settings, p, level)
  /\ benefits = getBenefitsForPosition(positionId, FACULTY_POSITIONS[positionId].level)

\* A step that sets b for p makes the lookup return b for p from the
\* position tier and leaves every other position's answer alone.
C18_AfterSet(p, level) ==
  \A b \in {settings'.positionBenefits[p].benefits} :
    setBenefitsForPosition(p, b) =>
      /\ getBenefitsForPosition(p, level)' = b
      /\ getBenefitsSource(p, level)' = "position"
      /\ \A q \in DOMAIN FACULTY_POSITIONS \ {p} :
           /\ getBenefitsForPosition(q, level)' = getBenefitsForPosition(q, level)
           /\ getBenefitsSource(q, level)' = getBenefitsSource(q, level)

\* A step that clears p's override makes the lookup return the level default,
\* or the global default where the level has none, and report that tier.
C18_AfterClear(p, level) ==
  clearPositionBenefits(p) =>
    /\ getBenefitsForPosition(p, level)' =
         IF level \in DOMAIN settings.levelBenefits
         THEN settings.levelBenefits[level] ELSE settings.globalBenefits
    /\ getBenefitsSource(p, level)' =
         IF level \in DOMAIN settings.levelBenefits THEN "level" ELSE "global"
    /\ \A q \in DOMAIN FACULTY_POSITIONS \ {p} :
         getBenefitsForPosition(q, level)' = getBenefitsForPosition(q, level)

C18_Steps ==
  \A p \in DOMAIN FACULTY_POSITIONS, level \in DOMAIN DEFAULT_LEVEL_BENEFITS :
    C18_AfterSet(p, level) /\ C18_AfterClear(p, level)

\* C18: benefits resolution is a three-tier chain over any sequence of
\* settings operations: the position override if set, else the level default
\* if one exists, else the global default; after setBenefitsForPosition(p, b)
\* the lookup returns b for p and is unchanged for every other position; after
\* clearPositionBenefits(p) it returns the level or global default again; and
\* getBenefitsSource reports the tier that was used.
C18_ThreeTierChain ==
  []C18_Chain /\ [][C18_Steps]_vars

\* The Assistant Professor carries an override that raises housing to 45000
\* and is selected, while the Principal, whose level 13A has no default in the
\* saved settings, has had its own override cleared or never set and falls
\* through to the global default.
C18_Witness ==
  /\ positionId = 1
  /\ settings.positionBenefits[1].defined
  /\ benefits.housing = 45000
  /\ benefits.ppfPercent = 1000
  /\ getBenefitsSource(1, "10") = "position"
  /\ ~settings.positionBenefits[7].defined
  /\ getBenefitsSource(7, "13A") = "global"
  /\ getBenefitsForPosition(7, "13A") = DEFAULT_GLOBAL_BENEFITS
  /\ getBenefitsForPosition(2, "11") = DEFAULT_LEVEL_BENEFITS["11"]

(***************************************************************************)
(* C19: the version gate of the settings loader                            *)
(***************************************************************************)
\* The provider has just been constructed: nothing has been persisted or
\* reset since the load that found `stored`.
LoadedAsDefaults ==
  /\ settings = DEFAULT_SETTINGS
  /\ ~storage.blob.present
  /\ storage.version = [present |-> TRUE, value |-> SETTINGS_VERSION]

\* The stored version item differs from SETTINGS_VERSION: older, newer or
\* missing.
VersionDiffers ==
  ~stored.version.present \/ stored.version.value # SETTINGS_VERSION

\* The statement as given: any difference of version discards the blob and
\* yields exactly the defaults.
C19_AnyMismatchDiscards ==
  VersionDiffers => LoadedAsDefaults

\* The load as the initialiser performs it: a blob whose version item is
\* older than SETTINGS_VERSION or missing is removed, the version item is set
\* to SETTINGS_VERSION and the settings are exactly the defaults; a blob whose
\* version item is SETTINGS_VERSION or newer is kept, with its version item,
\* and its fields are spread over the defaults.
C19_OlderDiscardsNewerMerges ==
  /\ (~stored.version.present \/ stored.version.value < SETTINGS_VERSION) => LoadedAsDefaults
  /\ (stored.blob.present /\ stored.version.present /\ stored.version.value >= SETTINGS_VERSION) =>
       /\ storage = stored
       /\ \A f \in DOMAIN DEFAULT_SETTINGS :
            settings[f] = IF f \in DOMAIN stored.blob.value
                          THEN stored.blob.value[f] ELSE DEFAULT_SETTINGS[f]

\* C19 as stated: on load of the settings store, whenever the stored version
\* differs from the current SETTINGS_VERSION (older, newer or missing), the
\* stored blob is discarded and the settings are exactly the defaults; stored
\* values are never merged in that case.  Stated for the first load and for
\* every later reload.
C19_MismatchDiscards ==
  /\ VersionDiffers => LoadedAsDefaults
  /\ [][Reload => C19_AnyMismatchDiscards']_vars

\* C19, amended: on load, a stored version older than SETTINGS_VERSION or
\* missing discards the blob and gives exactly the defaults; a stored version
\* equal to or newer than SETTINGS_VERSION keeps the blob and merges its
\* fields over the defaults.  Stated for the first load and for every reload.
C19_StaleDiscardedNewerMerged ==
  C19_OlderDiscardsNewerMerges /\ [][Reload => C19_OlderDiscardsNewerMerges']_vars

\* A load that found a whole blob saved in hard mode under the older version
\* 5: the blob is gone from localStorage and the settings are the defaults,
\* soft mode included.
C19_Witness ==
  /\ stored.blob.present
  /\ "enforcementMode" \in DOMAIN stored.blob.value
  /\ stored.blob.value.enforcementMode = "hard"
  /\ stored.version = [present |-> TRUE, value |-> 5]
  /\ ~storage.blob.present
  /\ storage.version.value = SETTINGS_VERSION
  /\ settings = DEFAULT_SETTINGS
  /\ settings.enforcementMode = "soft"

(***************************************************************************)
(* C20: the premium amounts of the comparison                              *)
(***************************************************************************)
\* C20: calculateComparison returns premiumAmountMonthly = wpu.totalCTCMonthly
\* - ugc.totalMonthly, taken from the final CTC, which hard enforcement may
\* have clamped, and premiumAmountAnnual = premiumAmountMonthly * 12 =
\* wpu.totalCTCAnnual - ugc.totalAnnual, for every input.
C20_PremiumAmounts ==
  /\ comparison.premiumAmountMonthly = wpu.totalCTCMonthly - ugc.totalMonthly
  /\ comparison.premiumAmountAnnual = comparison.premiumAmountMonthly * 12
  /\ comparison.premiumAmountAnnual = wpu.totalCTCAnnual - ugc.totalAnnual
  /\ wpu.totalCTCAnnual < wpu.enforcement.originalCTCAnnual =>
       comparison.premiumAmountAnnual < wpu.enforcement.originalCTCAnnual - ugc.totalAnnual

\* Hard mode has clamped the Assistant Professor's CTC below the computed one,
\* and the premium amounts are those of the clamped CTC over the baseline.
C20_Witness ==
  /\ settings.enforcementMode = "hard"
  /\ positionId = 1
  /\ wpu.enforcement.ctcCapped
  /\ wpu.totalCTCAnnual < wpu.enforcement.originalCTCAnnual
  /\ comparison.premiumAmountMonthly = wpu.totalCTCMonthly - ugc.totalMonthly
  /\ comparison.premiumAmountAnnual = wpu.totalCTCAnnual - ugc.totalAnnual
  /\ comparison.premiumAmountAnnual > 0

(***************************************************************************)
(* C21: the divide-by-zero guard of the premium percentage                 *)
(***************************************************************************)
\* C21: calculateComparison returns premiumPercentage = 0 whenever the
\* baseline totalMonthly is 0, whatever the enhanced totals are; the division
\* is never by zero.
C21_ZeroBaselineGivesZeroPercent ==
  ~call.amount.undefined =>
    /\ call.result.premiumPercentage.den # 0
    /\ call.result.ugc.totalMonthly = 0 =>
         /\ call.result.premiumPercentage.num = 0
         /\ call.result.premiumPercentage.den = 1

\* A call for a cell past the end of level 10 at a DA of -100%: the baseline is
\* 0 in every item, the enhanced CTC is not, and the percentage is 0.
C21_Witness ==
  /\ call.level = "10"
  /\ call.cellIndex = 40
  /\ call.daPercent = -100
  /\ call.specialAllowance = 0
  /\ call.result.ugc.totalMonthly = 0
  /\ call.result.wpu.totalCTCMonthly > 0
  /\ call.result.premiumAmountMonthly > 0
  /\ call.result.premiumPercentage = [num |-> 0, den |-> 1]

(***************************************************************************)
(* C22: the defensive zero of getCellAmount                                *)
(***************************************************************************)
\* The call's cell index lies inside its level of the pay matrix.
CallInRange ==
  /\ call.level \in DOMAIN PAY_MATRIX
  /\ call.cellIndex >= 0
  /\ call.cellIndex < Len(PAY_MATRIX[call.level])

\* C22: getCellAmount returns 0 for an unknown level and for any cell index
\* that is negative or not below the number of cells of the level; for an
\* in-range index it returns the entry of the pay matrix; and
\* calculateComparison on an unknown level or out-of-range index returns a
\* complete result whose basic is 0.
C22_UnknownLookupsGiveZero ==
  /\ ~call.amount.undefined
  /\ CallInRange =>
       /\ call.amount.number = PAY_MATRIX[call.level][call.cellIndex + 1]
       /\ call.result.ugc.basic = call.amount.number
  /\ ~CallInRange =>
       /\ call.amount.number = 0
       /\ call.result.ugc.basic = 0
       /\ call.result.ugc.totalAnnual = 12 * call.result.ugc.totalMonthly
       /\ call.result.wpu.totalCTCAnnual = 12 * call.result.wpu.totalCTCMonthly
       /\ call.result.premiumAmountAnnual = 12 * call.result.premiumAmountMonthly

\* The lookups the statement gets right: a level that is no property of the
\* pay matrix at all, and a bad index of a level that is one, give 0 and a
\* complete result.
C22_Witness ==
  /\ call.level = "16"
  /\ call.cellIndex = 0
  /\ call.amount = Num(0)
  /\ call.result.ugc.basic = 0
  /\ call.result.ugc.totalMonthly > 0

(***************************************************************************)
(* C23: basic pay rises along every level of the pay matrix                *)
(***************************************************************************)
\* C23: for every level of the pay matrix and all in-range cell indices
\* i < j, the basic pay at cell i is strictly less than the basic pay at
\* cell j.
C23_BasicPayStrictlyIncreasing ==
  \A level \in DOMAIN PAY_MATRIX :
    \A i, j \in 0..(Len(PAY_MATRIX[level]) - 1) :
      i < j => getCellAmount(level, i).number < getCellAmount(level, j).number

\* A call for the last of the 8 cells of level 15: 224100, above the 217600
\* of the cell before it and the 182200 of the first.
C23_Witness ==
  /\ call.level = "15"
  /\ call.cellIndex = 7
  /\ call.amount = Num(224100)
  /\ getCellAmount("15", 6) = Num(217600)
  /\ getCellAmount("15", 0) = Num(182200)

(***************************************************************************)
(* C25: the line items of the enhanced breakdown and its total             *)
(***************************************************************************)
\* No clamp is applied: soft mode, or no cap exceeded.
NoClampApplied ==
  \/ settings.enforcementMode = "soft"
  \/ ~wpu.enforcement.salaryCapped /\ ~wpu.enforcement.ctcCapped

LineItemSum ==
  wpu.basic + wpu.da + wpu.hra + wpu.ta + wpu.specialAllowance + wpu.multiplierBonus + wpu.premiumMonthly

\* C25: whenever no clamp is applied, the reported line items of the enhanced
\* breakdown add up to its total, totalSalaryMonthly = basic + da + hra + ta +
\* specialAllowance + multiplierBonus + premiumMonthly, for every strategy,
\* method and housing config.
C25_LineItemsAddUp ==
  NoClampApplied => wpu.totalSalaryMonthly = LineItemSum

\* Under methodB every path adds up, the premium path because its items are
\* reset to the baseline's: here the premium strategy with housing provided
\* and no HRA configured.
C25_Witness ==
  /\ settings.multiplierMethod = "methodB"
  /\ strategy = "premium"
  /\ settings.hraConfig.providingHousing
  /\ ~settings.hraConfig.stillProvideHra
  /\ wpu.premiumMonthly > 0
  /\ wpu.hra = ugc.hra
  /\ wpu.totalSalaryMonthly = LineItemSum

(***************************************************************************)
(* C26: enforcement never increases pay                                    *)
(***************************************************************************)
\* C26: in both modes the returned totalSalaryAnnual is at most
\* enforcement.originalSalaryAnnual and totalCTCAnnual at most
\* enforcement.originalCTCAnnual; the minimum is never enforced: when
\* salaryBelowMin is true and salaryCapped is false, the returned
\* totalSalaryMonthly is the unclamped value, in hard mode too.
C26_EnforcementNeverIncreasesPay ==
  /\ wpu.totalSalaryAnnual <= wpu.enforcement.originalSalaryAnnual
  /\ wpu.totalCTCAnnual <= wpu.enforcement.originalCTCAnnual
  /\ wpu.enforcement.salaryBelowMin /\ ~wpu.enforcement.salaryCapped =>
       /\ wpu.totalSalaryMonthly * 12 = wpu.enforcement.originalSalaryAnnual
       /\ wpu.totalSalaryAnnual < CurrentSalaryCap.minWPUSalaryAnnual

\* Hard mode with a minimum of 1500000 above the Assistant Professor's salary:
\* the flag is raised and the salary is returned as computed, below the
\* minimum.
C26_Witness ==
  /\ settings.enforcementMode = "hard"
  /\ positionId = 1
  /\ CurrentSalaryCap.minWPUSalaryAnnual = 1500000
  /\ wpu.enforcement.salaryBelowMin
  /\ ~wpu.enforcement.salaryCapped
  /\ wpu.totalSalaryAnnual = wpu.enforcement.originalSalaryAnnual
  /\ wpu.totalSalaryAnnual < 1500000

(***************************************************************************)
(* C27: persist and reload of the settings store                           *)
(***************************************************************************)
\* What a reload would construct from localStorage is the settings in memory.
C27_StorageMirrorsSettings ==
  LoadSettings(storage) = settings

\* The step leaves every top-level setting outside `names` as it was.
OnlyChanges(names) ==
  \A f \in DOMAIN DEFAULT_SETTINGS \ names : settings'[f] = settings[f]

C27_Steps ==
  /\ Reload => settings' = settings
  /\ (\E v \in BOOLEAN : setTPTACity(v)) => OnlyChanges({"isTPTACity"})
  /\ (\E v \in {"soft", "hard"} : setEnforcementMode(v)) => OnlyChanges({"enforcementMode"})
  /\ resetToDefaults => settings' = DEFAULT_SETTINGS /\ LoadSettings(storage') = DEFAULT_SETTINGS

CellCount(level) ==
  IF level \in DOMAIN PAY_MATRIX THEN Len(PAY_MATRIX[level]) ELSE 0

\* the experience slider: min 0, max 30, step 1
ExperienceSlider == 0..30

\* maxCellIndex of the page: the last option of the pay cell select
MaxCellIndex == CellCount(FACULTY_POSITIONS[positionId].level) - 1

\* handleCellChange: the user picks one of the options of the pay cell select
handleCellChange(val) ==
  /\ val \in 0..MaxCellIndex
  /\ cellIndex' = val
  /\ cellManuallySet' = TRUE
  /\ UNCHANGED <<stored, storage, settings, positionId, experience, daPercent, cityType, strategy,
                 multiplier, annualPremium, benefits>>
  /\ Recompute
  /\ UNCHANGED outside

CellNext ==
  \/ \E id \in DOMAIN FACULTY_POSITIONS : handlePositionChange(id)
  \/ \E val \in ExperienceSlider : handleExperienceChange(val)
  \/ \E val \in 0..MaxCellIndex : handleCellChange(val)

CellSpec ==
  Init /\ [][CellNext]_vars

SuggestedCell == IF experience < MaxCellIndex THEN experience ELSE MaxCellIndex

C28_CellIndexInRange ==
  /\ cellIndex \in 0..MaxCellIndex
  /\ ~cellManuallySet => cellIndex = SuggestedCell

C28_ManualSelectionKept ==
  /\ (cellManuallySet /\ (\E val \in ExperienceSlider : handleExperienceChange(val)))
       => (cellManuallySet' /\ cellIndex' = cellIndex)
  /\ (\E id \in DOMAIN FACULTY_POSITIONS : handlePositionChange(id)) => ~cellManuallySet'

\* C28: after any sequence of position changes, experience changes (0..30) and
\* manual cell selections the cell index is a valid index of the current
\* position's level; while the cell has not been set manually since the last
\* position change it is min(experience, cells - 1); a manual selection stays
\* across experience changes and is dropped by a position change.
C28_CellIndexFollowsExperience ==
  []C28_CellIndexInRange /\ [][C28_ManualSelectionKept]_vars

\* a manual selection that survived an experience beyond the level's last cell
C28_Witness ==
  /\ cellManuallySet
  /\ experience > MaxCellIndex
  /\ cellIndex # SuggestedCell
  /\ positionId # 1

\* ---------------------------------------------------------------------------
\* The snake game played on small grids
\* ---------------------------------------------------------------------------
GridSizes == {2, 3}

\* lengths of the snakes a game starts with; eating grows them up to the whole grid
StartLengths == {1, 2}

CellsOf(gridSize) == {Cell(x, y) : x \in 0..(gridSize - 1), y \in 0..(gridSize - 1)}

\* the snakes of pairwise distinct cells of the grid
StartSnakes(gridSize) ==
  UNION {{s \in [1..n -> CellsOf(gridSize)] : \A i, j \in 1..n : i # j => s[i] # s[j]} :
         n \in StartLengths}

\* the running games on a small grid with a short snake
GameStarts ==
  UNION {{[gridSize |-> g, snake |-> s, direction |-> d, food |-> f, score |-> 0,
           gameOver |-> FALSE, paused |-> FALSE] :
          s \in StartSnakes(g), d \in Directions, f \in CellsOf(g)} : g \in GridSizes}

\* a game on one of the small grids starts with the food on a free cell
InitGame ==
  /\ CalculatorInit(EmptyStorage)
  /\ CallInit
  /\ ProxyInit
  /\ game \in GameStarts
  /\ ~isOnSnake(game.food, game.snake)

calculator ==
  <<stored, storage, settings, positionId, experience, cellIndex, cellManuallySet, daPercent,
    cityType, strategy, multiplier, annualPremium, benefits, comparison>>

\* one tick of the game component: setState(current => stepGame(current, queuedDirection))
Tick(requestedDirection, random) ==
  /\ game' = stepGame(game, requestedDirection, random)
  /\ UNCHANGED <<calculator, call, proxy>>

\* the pause key or button: setState(current => togglePause(current))
Pause ==
  /\ game' = togglePause(game)
  /\ UNCHANGED <<calculator, call, proxy>>

GameNext ==
  \/ \E requestedDirection \in Directions \cup {NoDirection}, random \in RandomValues :
       Tick(requestedDirection, random)
  \/ Pause

GameSpec ==
  InitGame /\ [][GameNext]_vars

InGrid(cell, gridSize) ==
  cell.x \in 0..(gridSize - 1) /\ cell.y \in 0..(gridSize - 1)

\* segments pairwise distinct and inside the grid
SnakeWellFormed(state) ==
  /\ \A i, j \in 1..Len(state.snake) : i # j => state.snake[i] # state.snake[j]
  /\ \A i \in 1..Len(state.snake) : InGrid(state.snake[i], state.gridSize)

FoodWellPlaced(state) ==
  InGrid(state.food, state.gridSize) /\ ~isOnSnake(state.food, state.snake)

WellFormed(state) ==
  Len(state.snake) > 0 /\ SnakeWellFormed(state) /\ FoodWellPlaced(state)

GridFull(state) ==
  \A c \in CellsOf(state.gridSize) : isOnSnake(c, state.snake)

\* what a step from a running, well-formed state must produce
StepOutcome(before, after) ==
  \/ after.gameOver /\ after.snake = before.snake
  \/ /\ SnakeWellFormed(after)
     /\ IF after.snake[1] = before.food
        THEN Len(after.snake) = Len(before.snake) + 1 /\ after.score = before.score + 1
        ELSE Len(after.snake) = Len(before.snake) /\ after.score = before.score
     /\ \/ FoodWellPlaced(after)
        \/ after.food = Cell(-1, -1) /\ after.gameOver /\ GridFull(after)

C29_GameStaysWellFormed ==
  ~game.gameOver => WellFormed(game)

C29_EveryStep ==
  \A requestedDirection \in Directions \cup {NoDirection}, random \in RandomValues :
    LET after == stepGame(game, requestedDirection, random)
    IN  IF game.gameOver \/ game.paused THEN after = game
        ELSE /\ WellFormed(game) => StepOutcome(game, after)
             /\ isOppositeDirection(game.direction, requestedDirection)
                  => after = stepGame(game, NoDirection, random)

\* C29: a step of the snake game from a running state whose snake is pairwise
\* distinct and inside the grid and whose food is inside the grid and off the
\* snake either ends the game with the snake unchanged, or leaves a snake that
\* is again pairwise distinct and inside the grid, one segment longer and the
\* score one higher exactly when the food was eaten, with the food again inside
\* the grid and off the snake, or at (-1,-1) with the game over when the grid is
\* full; a requested 180-degree turn is ignored; a step of a paused or finished
\* game changes nothing.
C29_StepKeepsGameWellFormed ==
  C29_GameStaysWellFormed /\ C29_EveryStep

\* the last free cell of a grid was eaten: two meals, the grid full, no food left
C29_Witness ==
  /\ game.score = 2
  /\ game.gameOver
  /\ game.food = Cell(-1, -1)
  /\ Len(game.snake) = game.gridSize * game.gridSize

\* ---------------------------------------------------------------------------
\* PATCH /api/brain/entries/:rowNumber handled by updateBrainRow
\* ---------------------------------------------------------------------------
\* the configurations the proxy is started with
Environments ==
  {Environment("absent", FALSE, "absent", "absent"),
   Environment("absent", FALSE, "absent", "set"),
   Environment("absent", FALSE, "blank", "set"),
   Environment("incomplete", FALSE, "blank", "blank"),
   Environment("absent", FALSE, "set", "set"),
   Environment("valid", FALSE, "absent", "absent"),
   Environment("incomplete", TRUE, "absent", "set"),
   Environment("invalid", TRUE, "set", "set")}

\* the spreadsheets the proxy is pointed at: blank, one full data row, one
\* data row whose last cell is empty
Sheets ==
  {[r \in 1..SheetRows |-> EmptyRow],
   <<HeaderRow, <<"t0", "n0">>, EmptyRow>>,
   <<HeaderRow, <<"t0", "">>, EmptyRow>>}

RowNumbers == {1, 2, 3}

UpdateSets ==
  {NoUpdates, [k \in {"title"} |-> "T1"], [k \in {"Notes"} |-> "N1"], [k \in {"bogus"} |-> "x"]}

InitProxy ==
  /\ CalculatorInit(EmptyStorage)
  /\ CallInit
  /\ GameInit
  /\ env \in Environments
  /\ sheet \in Sheets
  /\ requests = [r \in Requests |-> IdleRequest]
  /\ apiCalls = NoCalls

Fail(r, rowNumber, updates, status) ==
  requests' = [requests EXCEPT ![r] = [IdleRequest EXCEPT !.pc = "done", !.rowNumber = rowNumber,
                                                          !.updates = updates, !.status = status]]

\* routes.ts 37-63 and updateBrainRow lines 749-767: the request arrives and
\* runs up to the call of listSheetNames, which in a write mode asks the API
\* for the sheet names
StartUpdate(r, rowNumber, updates) ==
  /\ requests[r].pc = "idle"
  /\ LET mode == getSyncMode(env)
     IN  IF mode.threw
         THEN Fail(r, rowNumber, updates, mode.status) /\ UNCHANGED apiCalls
         ELSE IF ~isWriteMode(mode.value)
         THEN Fail(r, rowNumber, updates, 403) /\ UNCHANGED apiCalls
         ELSE IF rowNumber < 2 \/ DOMAIN updates = {}
         THEN Fail(r, rowNumber, updates, 400) /\ UNCHANGED apiCalls
         ELSE /\ requests' = [requests EXCEPT ![r] = [IdleRequest EXCEPT !.pc = "reading",
                                !.rowNumber = rowNumber, !.updates = updates, !.mode = mode.value]]
              /\ apiCalls' = [apiCalls EXCEPT !.reads = @ + (IF mode.value = "public" THEN 0 ELSE 1)]
  /\ UNCHANGED <<calculator, call, game, env, sheet>>

\* lines 774-826: the GET of the whole sheet answered, the row checked and
\* the working row built from what was read
ReadSheet(r) ==
  /\ requests[r].pc = "reading"
  /\ LET request == requests[r]
         matrix == ValuesOf(sheet)
         columns == ParsedColumns(matrix)
     IN  /\ apiCalls' = [apiCalls EXCEPT !.reads = @ + 1]
         /\ IF Len(matrix) = 0 \/ Len(columns) = 0
            THEN Fail(r, request.rowNumber, request.updates, 400)
            ELSE IF request.rowNumber - 2 >= ParsedRowCount(matrix)
            THEN Fail(r, request.rowNumber, request.updates, 404)
            ELSE IF \E k \in DOMAIN request.updates : getColumnIndex(columns, k) = 0
            THEN Fail(r, request.rowNumber, request.updates, 400)
            ELSE requests' = [requests EXCEPT ![r].pc = "writing",
                                ![r].workingRow = ApplyUpdates(
                                   WorkingRowOf(matrix, request.rowNumber, columns), columns,
                                   request.updates)]
  /\ UNCHANGED <<calculator, call, game, env, sheet>>

\* lines 827-857: the PUT of the whole row A<row>:<endColumn><row> answered
\* and the response sent
WriteRow(r) ==
  /\ requests[r].pc = "writing"
  /\ LET request == requests[r]
     IN  /\ sheet' = [sheet EXCEPT ![request.rowNumber] =
                        [c \in 1..SheetColumns |->
                           IF c <= Len(request.workingRow) THEN request.workingRow[c] ELSE @[c]]]
         /\ apiCalls' = [apiCalls EXCEPT !.writes = @ + 1,
                                         !.writeModes = @ \cup {request.mode}]
         /\ requests' = [requests EXCEPT ![r].pc = "done", ![r].status = 200]
  /\ UNCHANGED <<calculator, call, game, env>>

ProxyNext ==
  \/ \E r \in Requests, rowNumber \in RowNumbers, updates \in UpdateSets :
       StartUpdate(r, rowNumber, updates)
  \/ \E r \in Requests : ReadSheet(r)
  \/ \E r \in Requests : WriteRow(r)

ProxySpec ==
  InitProxy /\ [][ProxyNext]_vars

ReadOnlyMode ==
  /\ ~getSyncMode(env).threw
  /\ getSyncMode(env).value \in {"api_key", "public"}

C24_NoCallsWhenReadOnly ==
  /\ ReadOnlyMode =>
       /\ apiCalls.reads = 0 /\ apiCalls.writes = 0
       /\ \A r \in Requests : \/ requests[r].pc = "idle"
                              \/ requests[r].pc = "done" /\ requests[r].status = 403
  /\ apiCalls.writeModes \subseteq {"service_account", "oauth_token"}

C24_SheetUntouched ==
  ReadOnlyMode => sheet' = sheet

\* C24: in a read-only sync mode (api_key, or public with no credentials)
\* every updateBrainRow request fails with status 403 and no read or write
\* call is made to the spreadsheet, which stays as it was; write calls are
\* made only in service_account or oauth_token mode.
C24_ReadOnlyModeRejectsUpdates ==
  []C24_NoCallsWhenReadOnly /\ [][C24_SheetUntouched]_vars

\* an API key only: an update of an existing row and a known column refused
C24_Witness ==
  /\ getSyncMode(env) = Returned("api_key")
  /\ requests[1].pc = "done" /\ requests[1].status = 403
  /\ requests[1].rowNumber = 2 /\ "title" \in DOMAIN requests[1].updates
  /\ sheet[2] = <<"t0", "n0">>
  /\ requests[2].pc = "done"

ColumnsOfSheet == ParsedColumns(ValuesOf(sheet))

UpdatedColumns(r) ==
  {getColumnIndex(ColumnsOfSheet, k) : k \in DOMAIN requests[r].updates}

BothUpdatesCompleted ==
  /\ \A r \in Requests : requests[r].pc = "done" /\ requests[r].status = 200
  /\ requests[1].rowNumber = requests[2].rowNumber
  /\ UpdatedColumns(1) \cap UpdatedColumns(2) = {}

RowHolds(r) ==
  \A k \in DOMAIN requests[r].updates :
    sheet[requests[r].rowNumber][getColumnIndex(ColumnsOfSheet, k)] = requests[r].updates[k]

\* C30: two updateBrainRow requests that update different columns of the same
\* row, their reads and writes interleaved in any order, both take effect:
\* once both have completed the row holds both new values.
C30_BothUpdatesTakeEffect ==
  BothUpdatesCompleted => RowHolds(1) /\ RowHolds(2)

\* both requests answered 200, and the row has lost the title the first wrote
C30_Witness ==
  /\ BothUpdatesCompleted
  /\ requests[1].updates = [k \in {"title"} |-> "T1"]
  /\ requests[2].updates = [k \in {"Notes"} |-> "N1"]
  /\ sheet[2] = <<"t0", "N1">>

\* ---------------------------------------------------------------------------
\* The whole program
\* ---------------------------------------------------------------------------
Next ==
  \/ PageNext
  \/ AllowanceNext
  \/ EnforcementNext
  \/ EditBenefits
  \/ resetBenefitsToLevelDefaults
  \/ resetToDefaults
  \/ Reload
  \/ CellNext
  \/ CallNext
  \/ GameNext
  \/ ProxyNext

Spec ==
  InitSaved /\ [][Next]_vars
====
